---- MODULE Spec2Model ----
(***************************************************************************)
(* Reconciliation engine of the ElastiCache replication group resource     *)
(* (aws_elasticache_replication_group): the Update pass with its ordered   *)
(* update operations, the availability waiters, the finder and the final   *)
(* Read, run against a remote control plane that answers every call with   *)
(* success or a fault and settles modifications asynchronously.            *)
(*                                                                         *)
(* A behaviour of Spec is one Update pass on an existing group: Init        *)
(* picks the group as the last Read left it, StartUpdate picks the diff,   *)
(* and the pass runs step by step (one remote call or one waiter poll per  *)
(* step) until pc = "done".  log records the remote mutation calls and the *)
(* finished waits in the order they happen.                                *)
(*                                                                         *)
(* SpecCreate and SpecDelete are one Create and one Delete pass in the     *)
(* same way, and SpecLifecycle is Create followed by any sequence of Read, *)
(* Update and Delete passes on the resource it created.                    *)
(* SpecRead is one Read invocation on a group in any status, SpecResource  *)
(* is one pass of any of the three kinds, SpecFinder is the finder on a    *)
(* paginated listing and SpecWaiter the availability waiter on a sequence  *)
(* of finder answers.  SpecVault is one Update pass of the Glacier vault   *)
(* resource (aws_glacier_vault) on its access policy and notifications.    *)
(***************************************************************************)
EXTENDS Integers, Sequences, FiniteSets, TLC

\* ------------------------------------------------------------------ bounds
\* Largest num_node_groups and replicas_per_node_group of a state or a
\* configuration, polls a waiter makes before its timeout expires, and
\* attributes one diff changes.
MaxShards == 3
MaxReplicas == 2
MaxPolls == 3
MaxChanges == 2
\* Times a retried call is re-issued before its retry window is over.
MaxRetries == 2
\* Pages of a DescribeReplicationGroups listing and objects on one page.
MaxPages == 2
MaxPageLen == 2

\* --------------------------------------------------------------- constants
engineRedis == "redis"
engineValkey == "valkey"

replicationGroupStatusAvailable == "available"
replicationGroupStatusCreateFailed == "create-failed"
replicationGroupStatusCreating == "creating"
replicationGroupStatusDeleting == "deleting"
replicationGroupStatusModifying == "modifying"
replicationGroupStatusSnapshotting == "snapshotting"

cacheClusterStatusAvailable == "available"
cacheClusterStatusModifying == "modifying"

ReplicationGroupID == "rg1"

\* Outcomes of one remote mutation call: accepted, the
\* InvalidParameterCombination "No modifications were requested" fault, or
\* any other fault.
CallResults == {"ok", "nomod", "fault"}

\* Outcomes of a replica-count call that sends NewReplicaCount count: the
\* control plane accepts no negative count.
ReplicaCountResults(count) == IF count < 0 THEN CallResults \ {"ok"} ELSE CallResults

\* ----------------------------------------------------- the schema and diff
\* Attributes that feed the generic ModifyReplicationGroup input, in the
\* order resourceReplicationGroupUpdate inspects them, with the API field
\* each one sets.
GenericAttrs ==
  << "auto_minor_version_upgrade", "automatic_failover_enabled", "description",
     "cluster_mode", "engine_version", "ip_discovery",
     "log_delivery_configuration", "maintenance_window", "multi_az_enabled",
     "network_type", "node_type", "notification_topic_arn",
     "parameter_group_name", "security_group_ids", "security_group_names",
     "snapshot_retention_limit", "snapshot_window",
     "transit_encryption_enabled", "transit_encryption_mode", "user_group_ids" >>

GenericField(a) ==
  CASE a = "auto_minor_version_upgrade" -> "AutoMinorVersionUpgrade"
    [] a = "automatic_failover_enabled" -> "AutomaticFailoverEnabled"
    [] a = "description" -> "ReplicationGroupDescription"
    [] a = "cluster_mode" -> "ClusterMode"
    [] a = "engine_version" -> "EngineVersion"
    [] a = "ip_discovery" -> "IpDiscovery"
    [] a = "log_delivery_configuration" -> "LogDeliveryConfigurations"
    [] a = "maintenance_window" -> "PreferredMaintenanceWindow"
    [] a = "multi_az_enabled" -> "MultiAZEnabled"
    [] a = "network_type" -> "IpDiscovery"
    [] a = "node_type" -> "CacheNodeType"
    [] a = "notification_topic_arn" -> "NotificationTopicArn"
    [] a = "parameter_group_name" -> "CacheParameterGroupName"
    [] a = "security_group_ids" -> "SecurityGroupIds"
    [] a = "security_group_names" -> "CacheSecurityGroupNames"
    [] a = "snapshot_retention_limit" -> "SnapshotRetentionLimit"
    [] a = "snapshot_window" -> "SnapshotWindow"
    [] a = "transit_encryption_enabled" -> "TransitEncryptionEnabled"
    [] a = "transit_encryption_mode" -> "TransitEncryptionMode"
    \* a changed set has a non-empty difference one way or the other:
    \* UserGroupIdsToAdd, UserGroupIdsToRemove or both are set
    [] a = "user_group_ids" -> "UserGroupIdsToAddOrRemove"

\* Attributes whose change reaches the input only when the new value is
\* set (d.GetOk succeeds, the set is not empty, the nullable bool is not
\* null).
NeedsValue == {"auto_minor_version_upgrade", "security_group_ids", "security_group_names"}

AuthAttrs == {"auth_token", "auth_token_update_strategy"}
TagAttrs == {"tags", "tags_all"}

\* The attributes the enumerated diffs change (besides the topology
\* attributes and the engine).
DiffAttrs ==
  {"description", "engine_version", "security_group_ids",
   "auth_token", "auth_token_update_strategy", "tags", "tags_all"}

Digit(i) == <<"0", "1", "2", "3", "4", "5", "6", "7", "8", "9">>[i + 1]

\* fmt.Sprintf("%04d", i) for 0 <= i: at least four digits, zero padded.
RECURSIVE Digits(_)
Digits(i) == IF i < 10 THEN Digit(i) ELSE Digits(i \div 10) \o Digit(i % 10)

Fmt04Unpadded(i) == Digits(i)

Fmt04(i) ==
  IF i >= 1000 THEN Digits(i)
  ELSE "0" \o Digit((i \div 100) % 10) \o Digit((i \div 10) % 10) \o Digit(i % 10)

\* d.HasChange(a) on a diff d.
HasChange(d, a) ==
  CASE a = "num_node_groups" -> d.nng[1] # d.nng[2]
    [] a = "replicas_per_node_group" -> d.rpg[1] # d.rpg[2]
    [] a = "num_cache_clusters" -> d.ncc[1] # d.ncc[2]
    [] a = "engine" -> d.engine[1] # d.engine[2]
    [] OTHER -> a \in d.changed

HasChanges(d, as) == \E a \in as : HasChange(d, a)

\* d.HasChangesExcept(as...): some attribute outside as has changed.
HasChangesExcept(d, as) ==
  \/ HasChanges(d, {"num_node_groups", "replicas_per_node_group", "num_cache_clusters", "engine"} \ as)
  \/ d.changed \ as # {}

\* A schema without ConflictsWith on the replica attributes.
ConflictsWithNotDeclared(d) == TRUE

\* The schema's ConflictsWith between num_cache_clusters and
\* num_node_groups / replicas_per_node_group: one configuration sets only one
\* of the two groups, and the unset Computed attributes keep their state value.
ConflictsWith(d) ==
  ~ (HasChange(d, "num_cache_clusters") /\ HasChanges(d, {"num_node_groups", "replicas_per_node_group"}))

\* CustomizeDiff's ForceNewIf on engine: every engine change except
\* redis -> valkey replaces the resource instead of updating it.
EngineUpdatable(d) ==
  HasChange(d, "engine") => (d.engine[1] = engineRedis /\ d.engine[2] = engineValkey)

\* The number of attributes a diff changes.
NumChanges(d) ==
  Cardinality({a \in {"num_node_groups", "replicas_per_node_group", "num_cache_clusters", "engine"} :
                 HasChange(d, a)})
  + Cardinality(d.changed)

\* ------------------------------------------------------- the update planner
Op(kind, n, fields) == [kind |-> kind, n |-> n, fields |-> fields]

\* The ordering class of a planned operation (the numbered list in
\* resourceReplicationGroupUpdate).
OpClass(kind) ==
  CASE kind = "shard" -> 1
    [] kind = "increase" -> 2
    [] kind = "modify" -> 3
    [] kind = "auth" -> 4
    [] kind = "decrease" -> 5

\* GenericInput with the auth token batched into the generic call.
GenericInputWithAuthToken(d) ==
  {GenericField(GenericAttrs[i]) :
     i \in {j \in 1..Len(GenericAttrs) :
              /\ HasChange(d, GenericAttrs[j])
              /\ GenericAttrs[j] \in NeedsValue => GenericAttrs[j] \notin d.empty}}
  \cup (IF d.engine[1] = engineRedis /\ d.engine[2] = engineValkey THEN {"Engine"} ELSE {})
  \cup (IF HasChange(d, "auth_token") THEN {"AuthToken"} ELSE {})

\* The fields of the generic ModifyReplicationGroupInput that the diff sets
\* (ApplyImmediately and ReplicationGroupId, which are always sent, left out).
GenericInput(d) ==
  {GenericField(GenericAttrs[i]) :
     i \in {j \in 1..Len(GenericAttrs) :
              /\ HasChange(d, GenericAttrs[j])
              /\ GenericAttrs[j] \in NeedsValue => GenericAttrs[j] \notin d.empty}}
  \cup (IF d.engine[1] = engineRedis /\ d.engine[2] = engineValkey THEN {"Engine"} ELSE {})

AuthInput(d) == {"AuthToken", "AuthTokenUpdateStrategy"}

EngineVersionNotChecked(d) == FALSE

\* The engine check made while the generic input is built.
EngineVersionMissing(d) ==
  /\ d.engine[1] = engineRedis /\ d.engine[2] = engineValkey
  /\ ~ HasChange(d, "engine_version")

TopologyFuncs(d) ==
  IF HasChanges(d, {"num_node_groups", "replicas_per_node_group"})
  THEN << Op("shard", 0, {}) >>
  ELSE IF HasChange(d, "num_cache_clusters") /\ d.ncc[2] > d.ncc[1]
       THEN << Op("increase", d.ncc[2], {}) >>
       ELSE << >>

ModifyFuncs(d) ==
  IF GenericInput(d) # {} THEN << Op("modify", 0, GenericInput(d)) >> ELSE << >>

\* AuthFuncs keyed on the update strategy alone.
AuthFuncsStrategyOnly(d) ==
  IF HasChange(d, "auth_token_update_strategy") THEN << Op("auth", 0, AuthInput(d)) >> ELSE << >>

AuthFuncs(d) ==
  IF HasChanges(d, AuthAttrs) THEN << Op("auth", 0, AuthInput(d)) >> ELSE << >>

DecreaseFuncs(d) ==
  IF HasChange(d, "num_cache_clusters") /\ d.ncc[2] < d.ncc[1]
  THEN << Op("decrease", d.ncc[2], {}) >>
  ELSE << >>

\* PlanUpdate with the replica-count decrease appended first.
PlanUpdateDecreaseFirst(d) ==
  DecreaseFuncs(d) \o TopologyFuncs(d) \o ModifyFuncs(d) \o AuthFuncs(d)

\* updateFuncs as resourceReplicationGroupUpdate appends them.
PlanUpdate(d) ==
  TopologyFuncs(d) \o ModifyFuncs(d) \o AuthFuncs(d) \o DecreaseFuncs(d)

\* UpdateFuncs without the tags gate, tags sent through a modify operation.
UpdateFuncsTagsAsModify(d) ==
  PlanUpdate(d) \o (IF HasChanges(d, TagAttrs) THEN << Op("modify", 0, {"Tags"}) >> ELSE << >>)

\* The operations an Update runs: none when only tags / tags_all changed.
UpdateFuncs(d) ==
  IF HasChangesExcept(d, TagAttrs) THEN PlanUpdate(d) ELSE << >>

\* NodeGroupsToRemove that lists the highest old shard on every count change.
NodeGroupsToRemoveOnAnyChange(oldNodeGroupCount, newNodeGroupCount) ==
  IF oldNodeGroupCount # newNodeGroupCount THEN << Fmt04(oldNodeGroupCount) >> ELSE << >>

\* nodeGroupsToRemove of modifyReplicationGroupShardConfigurationNumNodeGroups.
RECURSIVE NodeGroupsToRemove(_, _)
NodeGroupsToRemove(oldNodeGroupCount, newNodeGroupCount) ==
  IF oldNodeGroupCount > newNodeGroupCount
  THEN << Fmt04(oldNodeGroupCount) >> \o NodeGroupsToRemove(oldNodeGroupCount - 1, newNodeGroupCount)
  ELSE << >>

\* ---------------------------------------------------------------- the state
VARIABLES
  pc,           \* position of the running pass
  id,           \* d.Id()
  diff,         \* the diff of the running Update
  updateFuncs,  \* the planned operations of the running Update
  idx,          \* index of the operation the update loop is at
  polls,        \* polls made by the running waiter, re-issues by the running retry
  remote,       \* the replication group as the control plane holds it
  state,        \* the attributes Read has written to local state
  diags,        \* the diagnostics the pass returns
  log,          \* remote mutation calls and finished waits of the pass, in order
  config,       \* the configured attributes d.Get returns, and d.IsNewResource()
  input         \* the request a Create pass builds and sends

vars == << pc, id, diff, updateFuncs, idx, polls, remote, state, diags, log, config, input >>

\* An Update pass reads the configuration through its diff.
NoConfig == [isNew |-> FALSE]
NoInput == [fields |-> {}, tags |-> FALSE]

NoDiff ==
  [nng |-> <<1, 1>>, rpg |-> <<0, 0>>, ncc |-> <<1, 1>>,
   engine |-> <<engineRedis, engineRedis>>, changed |-> {}, empty |-> {}]

\* One entry of the log: a remote mutation call (ev = "call") with its
\* payload and result, or a finished wait (ev = "wait") with its result.
\* and the last status it observed, or the finder call of Read (ev = "read").
Ev(ev, api, at, class, count, remove, fields, status, res) ==
  [ev |-> ev, api |-> api, at |-> at, class |-> class, count |-> count,
   remove |-> remove, fields |-> fields, status |-> status, res |-> res]

CallEv(api, at, class, count, remove, fields, res) ==
  Ev("call", api, at, class, count, remove, fields, "", res)
WaitEv(waiter, at, class, status, res) ==
  Ev("wait", waiter, at, class, 0, << >>, {}, status, res)

\* len(rgp.MemberClusters): every node group has a primary and its replicas.
MemberClusters(rg) == rg.nodeGroups * (rg.replicas + 1)

\* FlattenEndpoints that looks at the first node group before the
\* configuration endpoint.
FlattenEndpointsNodeGroupFirst(rg, st) ==
  IF rg.nodeGroups > 0 /\ rg.primaryEndpoint
  THEN [port |-> "primary_port",
        configuration_endpoint_address |-> st.configuration_endpoint_address,
        primary_endpoint_address |-> "primary_address",
        reader_endpoint_address |->
          IF rg.readerEndpoint THEN "reader_address" ELSE st.reader_endpoint_address]
  ELSE IF rg.configurationEndpoint
  THEN [port |-> "configuration_port",
        configuration_endpoint_address |-> "configuration_address",
        primary_endpoint_address |-> st.primary_endpoint_address,
        reader_endpoint_address |-> st.reader_endpoint_address]
  ELSE [port |-> st.port,
        configuration_endpoint_address |-> st.configuration_endpoint_address,
        primary_endpoint_address |-> st.primary_endpoint_address,
        reader_endpoint_address |-> st.reader_endpoint_address]

\* The endpoint attributes Read sets from the remote group rg; an attribute
\* that is not set keeps the value it has in st.
FlattenEndpoints(rg, st) ==
  IF rg.configurationEndpoint
  THEN [port |-> "configuration_port",
        configuration_endpoint_address |-> "configuration_address",
        primary_endpoint_address |-> st.primary_endpoint_address,
        reader_endpoint_address |-> st.reader_endpoint_address]
  ELSE IF rg.nodeGroups > 0
  THEN [port |-> IF rg.primaryEndpoint THEN "primary_port" ELSE st.port,
        configuration_endpoint_address |-> st.configuration_endpoint_address,
        primary_endpoint_address |->
          IF rg.primaryEndpoint THEN "primary_address" ELSE st.primary_endpoint_address,
        reader_endpoint_address |->
          IF rg.readerEndpoint THEN "reader_address" ELSE st.reader_endpoint_address]
  ELSE [port |-> st.port,
        configuration_endpoint_address |-> st.configuration_endpoint_address,
        primary_endpoint_address |-> st.primary_endpoint_address,
        reader_endpoint_address |-> st.reader_endpoint_address]

\* The topology attributes resourceReplicationGroupRead sets from rgp.
Flatten(rg, st) ==
  [ num_cache_clusters |-> MemberClusters(rg),
    num_node_groups |-> rg.nodeGroups,
    replicas_per_node_group |->
      IF rg.nodeGroups > 0 THEN (rg.replicas + 1) - 1 ELSE st.replicas_per_node_group,
    engine |-> rg.engine,
    port |-> FlattenEndpoints(rg, st).port,
    configuration_endpoint_address |-> FlattenEndpoints(rg, st).configuration_endpoint_address,
    primary_endpoint_address |-> FlattenEndpoints(rg, st).primary_endpoint_address,
    reader_endpoint_address |-> FlattenEndpoints(rg, st).reader_endpoint_address,
    rgp |-> [nodeGroups |-> rg.nodeGroups, nodeGroupsNil |-> rg.nodeGroupsNil] ]

\* The attributes of a resource that has not been read yet.
NoState ==
  [num_cache_clusters |-> 1, num_node_groups |-> 1, replicas_per_node_group |-> 0,
   engine |-> engineRedis, port |-> "", configuration_endpoint_address |-> "",
   primary_endpoint_address |-> "", reader_endpoint_address |-> "",
   rgp |-> [nodeGroups |-> 1, nodeGroupsNil |-> FALSE]]

Init ==
  /\ pc = "idle"
  /\ id = ReplicationGroupID
  /\ diff = NoDiff
  /\ updateFuncs = << >>
  /\ idx = 0
  /\ polls = 0
  /\ \E g \in 1..MaxShards, r \in 0..MaxReplicas,
        e \in {engineRedis, engineValkey},
        s \in {replicationGroupStatusAvailable, replicationGroupStatusModifying} :
       /\ remote = [exists |-> TRUE, status |-> s, memberStatus |-> cacheClusterStatusAvailable,
                    nodeGroups |-> g, replicas |-> r, engine |-> e,
                    pendNodeGroups |-> g, pendReplicas |-> r,
                    global |-> "", member |-> "", detaching |-> FALSE,
                    configurationEndpoint |-> FALSE, primaryEndpoint |-> TRUE,
                    readerEndpoint |-> TRUE, nodeGroupsNil |-> FALSE]
       /\ state = Flatten(remote, NoState)
  /\ diags = << >>
  /\ log = << >>
  /\ config = NoConfig
  /\ input = NoInput

\* ---------------------------------------------------- finder and waiters
\* findReplicationGroupByID that turns every error into NotFound.
findReplicationGroupByIDErrorIsNotFound(transportErr) ==
  IF transportErr \/ ~ remote.exists THEN [err |-> "notfound", status |-> ""]
  ELSE [err |-> "", status |-> remote.status]

\* findReplicationGroupByID: the object, the NotFound error, or any other
\* error (transport), which the finder returns unchanged.
findReplicationGroupByID(transportErr) ==
  IF transportErr THEN [err |-> "error", status |-> ""]
  ELSE IF ~ remote.exists THEN [err |-> "notfound", status |-> ""]
  ELSE [err |-> "", status |-> remote.status]

\* retry.NotFound: the NotFound error of the finder and the errors of
\* AssertSingleValueResult, which present themselves as NotFound errors.
NotFound(err) == err \in {"notfound", "empty result", "too many results"}

\* The body of statusReplicationGroup on what the finder returned: NotFound
\* becomes "no object, no error", any other error is handed to the waiter.
Refresh(out) ==
  IF NotFound(out.err) THEN [err |-> "", found |-> FALSE, status |-> ""]
  ELSE IF out.err # "" THEN [err |-> out.err, found |-> FALSE, status |-> ""]
  ELSE [err |-> "", found |-> TRUE, status |-> out.status]

\* statusReplicationGroup: NotFound becomes "no object, no error".
statusReplicationGroup(transportErr) == Refresh(findReplicationGroupByID(transportErr))

\* statusReplicationGroupMemberClusters: "available" or the first
\* non-"available" member status.
statusReplicationGroupMemberClusters(transportErr) ==
  LET out == findReplicationGroupByID(transportErr)
  IN  IF out.err = "notfound" THEN [err |-> "", found |-> FALSE, status |-> ""]
      ELSE IF out.err # "" THEN [err |-> out.err, found |-> FALSE, status |-> ""]
      ELSE [err |-> "", found |-> TRUE, status |-> remote.memberStatus]

\* Pending of waitReplicationGroupAvailable with "deleting" added.
AvailablePendingWithDeleting ==
  {replicationGroupStatusCreating, replicationGroupStatusModifying, replicationGroupStatusSnapshotting,
   replicationGroupStatusDeleting}

\* Pending of waitReplicationGroupAvailable.
AvailablePending ==
  {replicationGroupStatusCreating, replicationGroupStatusModifying, replicationGroupStatusSnapshotting}

\* Target of waitReplicationGroupAvailable with "creating" added.
AvailableTargetWithCreating == {replicationGroupStatusAvailable, replicationGroupStatusCreating}

\* Target of waitReplicationGroupAvailable.
AvailableTarget == {replicationGroupStatusAvailable}

MembersPending == {"creating", "deleting", "modifying", "snapshotting"}
MembersTarget == {cacheClusterStatusAvailable}

\* WaitForState that reports success when the timeout expires.
WaitForStateSilentTimeout(pending, target, r, n) ==
  IF r.err # "" THEN "error"
  ELSE IF r.found /\ r.status \in target THEN "ok"
  ELSE IF ~ r.found /\ target = {} THEN "ok"
  ELSE IF r.found /\ r.status \notin pending THEN "unexpected"
  ELSE IF n >= MaxPolls THEN "ok"
  ELSE "continue"

\* One tick of StateChangeConf.WaitForStateContext, the n-th poll of the
\* wait: "ok" (target reached), "continue" (poll again), or the error the
\* wait ends with.  The timeout is the MaxPolls-th poll still not at target.
WaitForState(pending, target, r, n) ==
  IF r.err # "" THEN "error"
  ELSE IF r.found /\ r.status \in target THEN "ok"
  ELSE IF ~ r.found /\ target = {} THEN "ok"
  ELSE IF r.found /\ r.status \notin pending THEN "unexpected"
  ELSE IF n >= MaxPolls THEN "timeout"
  ELSE "continue"

\* ------------------------------------------------------ the Update pass
\* Where an update function starts.
FnEntry(op, d) ==
  CASE op.kind = "shard" ->
         IF HasChange(d, "num_node_groups") THEN "shard_nng"
         ELSE IF HasChange(d, "replicas_per_node_group") THEN "shard_rpg"
         ELSE "upd_postwait"
    [] op.kind = "increase" -> "inc_call"
    [] op.kind = "modify" -> "modify_call"
    [] op.kind = "auth" -> "auth_call"
    [] op.kind = "decrease" -> "dec_call"

\* AfterWait that drops the replica-count part of the shard-configuration
\* operation once the shard-count part has run.
AfterWaitDropsReplicaChange(p, d, funcs, i) ==
  CASE p = "upd_prewait" -> FnEntry(funcs[i], d)
    [] p = "shard_nng_wait" -> "upd_postwait"
    [] p = "shard_rpg_wait" -> "upd_postwait"
    [] p = "members_wait" -> "upd_postwait"
    [] p = "upd_postwait" -> IF i < Len(funcs) THEN "upd_prewait" ELSE "read_find"
    [] p = "read_wait" -> "read_clusters"

\* Where the pass continues after the wait at position p has succeeded.
AfterWait(p, d, funcs, i) ==
  CASE p = "upd_prewait" -> FnEntry(funcs[i], d)
    [] p = "shard_nng_wait" ->
         IF HasChange(d, "replicas_per_node_group") THEN "shard_rpg" ELSE "upd_postwait"
    [] p = "shard_rpg_wait" -> "upd_postwait"
    [] p = "members_wait" -> "upd_postwait"
    [] p = "upd_postwait" -> IF i < Len(funcs) THEN "upd_prewait" ELSE "read_find"
    [] p = "read_wait" -> "read_clusters"

\* AfterCall without the wait between the shard-count call and the
\* replica-count call of the shard-configuration operation.
AfterCallNoShardWait(p) ==
  CASE p = "shard_nng" -> "shard_rpg"
    [] p = "shard_rpg" -> "shard_rpg_wait"
    [] p = "inc_call" -> "members_wait"
    [] p = "dec_call" -> "members_wait"
    [] p = "modify_call" -> "upd_postwait"
    [] p = "auth_call" -> "upd_postwait"

\* Where the pass continues after the remote call at position p returned
\* without an error.
AfterCall(p) ==
  CASE p = "shard_nng" -> "shard_nng_wait"
    [] p = "shard_rpg" -> "shard_rpg_wait"
    [] p = "inc_call" -> "members_wait"
    [] p = "dec_call" -> "members_wait"
    [] p = "modify_call" -> "upd_postwait"
    [] p = "auth_call" -> "upd_postwait"

\* errs.IsAErrorMessageContains[InvalidParameterCombinationException](err,
\* "No modifications were requested") at the call sites that test for it.
NoModificationsTolerated(p, res) ==
  p \in {"modify_call", "auth_call"} /\ res = "nomod"

\* CallFails that lets a fault of the auth token call pass.
CallFailsAuthIgnored(p, res) ==
  res # "ok" /\ ~ NoModificationsTolerated(p, res) /\ p # "auth_call"

\* The call at position p returns an error to the update loop.
CallFails(p, res) == res # "ok" /\ ~ NoModificationsTolerated(p, res)

\* The diagnostic of a failed wait at position p.
WaitDiag(p) ==
  CASE p = "upd_prewait" -> "waiting to become available"
    [] p = "read_wait" -> "waiting for create"
    [] p = "members_wait" -> "waiting for member cluster update"
    [] OTHER -> "waiting for update"

\* The control plane accepts a mutation call: the group goes to modifying
\* and the new topology is applied when the modification settles.
Accept(rg, api, count) ==
  CASE api = "ModifyReplicationGroupShardConfiguration" ->
         [rg EXCEPT !.status = replicationGroupStatusModifying, !.pendNodeGroups = count]
    [] api \in {"IncreaseReplicaCount", "DecreaseReplicaCount"} ->
         [rg EXCEPT !.status = replicationGroupStatusModifying,
                    !.memberStatus = cacheClusterStatusModifying,
                    !.pendReplicas = count]
    [] OTHER -> [rg EXCEPT !.status = replicationGroupStatusModifying]

\* Call that issues a failed call a second time before it gives up.
CallRetriedOnce(at, api, count, remove, fields, res) ==
  /\ pc = at
  /\ log' = Append(log, CallEv(api, at, OpClass(updateFuncs[idx].kind), count, remove, fields, res))
  /\ remote' = IF res = "ok" THEN Accept(remote, api, count) ELSE remote
  /\ IF CallFails(at, res)
     THEN IF \E k \in 1..Len(log) : log[k].ev = "call" /\ log[k].at = at
          THEN /\ pc' = "done"
               /\ diags' = Append(diags, api)
          ELSE /\ pc' = at
               /\ diags' = diags
     ELSE /\ pc' = AfterCall(at)
          /\ diags' = diags
  /\ UNCHANGED << config, input, id, diff, updateFuncs, idx, polls, state >>

\* One remote mutation call at position at, answered with res.
Call(at, api, count, remove, fields, res) ==
  /\ pc = at
  /\ log' = Append(log, CallEv(api, at, OpClass(updateFuncs[idx].kind), count, remove, fields, res))
  /\ remote' = IF res = "ok" THEN Accept(remote, api, count) ELSE remote
  /\ IF CallFails(at, res)
     THEN /\ pc' = "done"
          /\ diags' = Append(diags, api)
     ELSE /\ pc' = AfterCall(at)
          /\ diags' = diags
  /\ UNCHANGED << config, input, id, diff, updateFuncs, idx, polls, state >>

StartUpdate ==
  /\ pc = "idle"
  /\ \E n \in 1..MaxShards, r \in 0..MaxReplicas,
        c \in (0..(MaxReplicas + 1)) \cup {state.num_cache_clusters},
        e \in {engineRedis, engineValkey}, ch \in SUBSET DiffAttrs :
       \E em \in SUBSET (ch \cap NeedsValue) :
         LET d == [nng |-> << state.num_node_groups, n >>,
                   rpg |-> << state.replicas_per_node_group, r >>,
                   ncc |-> << state.num_cache_clusters, c >>,
                   engine |-> << state.engine, e >>,
                   changed |-> ch, empty |-> em]
         IN  /\ ConflictsWith(d)
             /\ EngineUpdatable(d)
             /\ NumChanges(d) <= MaxChanges
             /\ diff' = d
             /\ IF HasChangesExcept(d, TagAttrs) /\ EngineVersionMissing(d)
                THEN /\ pc' = "done"
                     /\ diags' = Append(diags, "must explicitly set engine_version")
                     /\ UNCHANGED << updateFuncs, idx >>
                ELSE /\ updateFuncs' = UpdateFuncs(d)
                     /\ idx' = IF UpdateFuncs(d) = << >> THEN 0 ELSE 1
                     /\ pc' = IF UpdateFuncs(d) = << >> THEN "read_find" ELSE "upd_prewait"
                     /\ diags' = diags
  /\ UNCHANGED << config, input, id, polls, remote, state, log >>

\* modifyReplicationGroupShardConfigurationNumNodeGroups, the remote call.
ShardNumNodeGroups ==
  \E res \in CallResults :
    Call("shard_nng", "ModifyReplicationGroupShardConfiguration", diff.nng[2],
         NodeGroupsToRemove(diff.nng[1], diff.nng[2]), {}, res)

\* modifyReplicationGroupShardConfigurationReplicasPerNodeGroup, the remote call.
ShardReplicasPerNodeGroup ==
  \E res \in CallResults :
    Call("shard_rpg",
         IF diff.rpg[2] > diff.rpg[1] THEN "IncreaseReplicaCount" ELSE "DecreaseReplicaCount",
         diff.rpg[2], << >>, {}, res)

\* increaseReplicationGroupReplicaCount, the remote call.
IncreaseReplicaCount ==
  /\ pc = "inc_call"
  /\ \E res \in ReplicaCountResults(updateFuncs[idx].n - 1) :
       Call("inc_call", "IncreaseReplicaCount", updateFuncs[idx].n - 1, << >>, {}, res)

\* decreaseReplicationGroupReplicaCount, the remote call.
DecreaseReplicaCount ==
  /\ pc = "dec_call"
  /\ \E res \in ReplicaCountResults(updateFuncs[idx].n - 1) :
       Call("dec_call", "DecreaseReplicaCount", updateFuncs[idx].n - 1, << >>, {}, res)

\* The generic ModifyReplicationGroup call.
ModifyReplicationGroup ==
  \E res \in CallResults :
    Call("modify_call", "ModifyReplicationGroup", 0, << >>, updateFuncs[idx].fields, res)

\* The ModifyReplicationGroup call that carries the auth token.
ModifyAuthToken ==
  \E res \in CallResults :
    Call("auth_call", "ModifyReplicationGroup", 0, << >>, updateFuncs[idx].fields, res)

WaitClass(p) == IF p = "read_wait" THEN 0 ELSE OpClass(updateFuncs[idx].kind)

\* One poll of a running wait at position p of the waiter named waiter:
\* r is what the status function returned, out what the waiter makes of it.
Poll(p, waiter, r, out) ==
  /\ pc = p
  /\ IF out = "continue"
     THEN /\ polls' = polls + 1
          /\ UNCHANGED << pc, idx, diags, log >>
     ELSE /\ polls' = 0
          /\ log' = Append(log, WaitEv(waiter, p, WaitClass(p), r.status, out))
          /\ IF out = "ok"
             THEN /\ pc' = AfterWait(p, diff, updateFuncs, idx)
                  /\ idx' = IF p = "upd_postwait" /\ idx < Len(updateFuncs) THEN idx + 1 ELSE idx
                  /\ diags' = diags
             ELSE /\ pc' = "done"
                  /\ diags' = Append(diags, WaitDiag(p))
                  /\ idx' = idx
  /\ UNCHANGED << config, input, id, diff, updateFuncs, remote, state >>

\* waitReplicationGroupAvailable, one poll, wherever the pass waits for it.
WaitReplicationGroupAvailable ==
  \E p \in {"upd_prewait", "shard_nng_wait", "shard_rpg_wait", "upd_postwait", "read_wait"},
     transportErr \in BOOLEAN :
    Poll(p, "waitReplicationGroupAvailable", statusReplicationGroup(transportErr),
         WaitForState(AvailablePending, AvailableTarget,
                      statusReplicationGroup(transportErr), polls + 1))

\* waitReplicationGroupMemberClustersAvailable, one poll.
WaitReplicationGroupMemberClustersAvailable ==
  \E transportErr \in BOOLEAN :
    Poll("members_wait", "waitReplicationGroupMemberClustersAvailable",
         statusReplicationGroupMemberClusters(transportErr),
         WaitForState(MembersPending, MembersTarget,
                      statusReplicationGroupMemberClusters(transportErr), polls + 1))

\* ---------------------------------------------------------- the Read pass
\* ReadNotFound that does not look at d.IsNewResource().
ReadNotFoundIgnoresNew(c, out) == out.err = "notfound"

\* !d.IsNewResource() && retry.NotFound(err)
ReadNotFound(c, out) == ~ c.isNew /\ out.err = "notfound"

\* ReadDeleting that never sees the deletion.
ReadDeletingNever(out) == FALSE

\* The group Read found is being deleted.
ReadDeleting(out) == out.status = replicationGroupStatusDeleting

\* resourceReplicationGroupRead up to the availability wait.
ReadFind ==
  /\ pc = "read_find"
  /\ \E transportErr \in BOOLEAN :
       LET out == findReplicationGroupByID(transportErr)
       IN  /\ log' = Append(log, Ev("read", "findReplicationGroupByID", "read_find", 0, 0,
                                    << >>, {}, out.status,
                                    IF out.err = "" THEN "ok" ELSE out.err))
           /\ IF ReadNotFound(config, out)
              THEN /\ id' = ""
                   /\ pc' = "done"
                   /\ UNCHANGED << state, diags >>
              ELSE IF out.err # ""
              THEN /\ diags' = Append(diags, "reading")
                   /\ pc' = "done"
                   /\ UNCHANGED << id, state >>
              ELSE IF ReadDeleting(out)
              THEN /\ id' = ""
                   /\ pc' = "done"
                   /\ UNCHANGED << state, diags >>
              ELSE /\ state' = Flatten(remote, state)
                   /\ pc' = "read_wait"
                   /\ UNCHANGED << id, diags >>
  /\ UNCHANGED << config, input, diff, updateFuncs, idx, polls, remote >>

\* rgp.NodeGroups != nil, the test Read makes before it looks at
\* rgp.NodeGroups[0] for the cache cluster lookup.
HasNodeGroups(rgp) == ~ rgp.nodeGroupsNil

\* The DescribeCacheClusters lookup on the first member of the first node
\* group of rgp, the object the finder returned before the wait.  Indexing
\* an empty list of node groups is a run-time panic.
ReadCacheClusters ==
  /\ pc = "read_clusters"
  /\ IF ~ HasNodeGroups(state.rgp)
     THEN pc' = "done" /\ diags' = diags
     ELSE IF state.rgp.nodeGroups = 0
     THEN pc' = "panic" /\ diags' = diags
     ELSE \E res \in {"ok", "empty", "fault"} :
            /\ diags' = IF res = "fault" THEN Append(diags, "reading Cache Cluster") ELSE diags
            /\ pc' = "done"
  /\ UNCHANGED << config, input, id, diff, updateFuncs, idx, polls, remote, state, log >>

\* ------------------------------------------------------ the control plane
\* The member clusters of a modification in flight become available.
RemoteMembersSettle ==
  /\ pc \notin {"idle", "done"}
  /\ remote.exists
  /\ remote.memberStatus # cacheClusterStatusAvailable
  /\ remote' = [remote EXCEPT !.memberStatus = cacheClusterStatusAvailable]
  /\ UNCHANGED << config, input, pc, id, diff, updateFuncs, idx, polls, state, diags, log >>

\* The modification in flight is applied and the group becomes available.
RemoteSettle ==
  /\ pc \notin {"idle", "done"}
  /\ remote.exists
  /\ remote.status = replicationGroupStatusModifying
  /\ remote.memberStatus = cacheClusterStatusAvailable
  /\ remote' = [remote EXCEPT !.status = replicationGroupStatusAvailable,
                              !.nodeGroups = remote.pendNodeGroups,
                              !.replicas = remote.pendReplicas]
  /\ UNCHANGED << config, input, pc, id, diff, updateFuncs, idx, polls, state, diags, log >>

Next ==
  \/ StartUpdate
  \/ ShardNumNodeGroups
  \/ ShardReplicasPerNodeGroup
  \/ IncreaseReplicaCount
  \/ DecreaseReplicaCount
  \/ ModifyReplicationGroup
  \/ ModifyAuthToken
  \/ WaitReplicationGroupAvailable
  \/ WaitReplicationGroupMemberClustersAvailable
  \/ ReadFind
  \/ ReadCacheClusters
  \/ RemoteMembersSettle
  \/ RemoteSettle

Spec == Init /\ [][Next]_vars

\* ------------------------------------------------------ the Create pass
GlobalReplicationGroupID == "grg1"

\* What the control plane answers to CreateReplicationGroup and to the
\* tagging call: success, the unsupported-operation-in-partition fault, or
\* any other fault.
CreateResults == {"ok", "unsupported", "fault"}

\* getTagsIn(ctx) is non-empty: the resource's own tags merged with the
\* provider's default tags; nil when there is none.
getTagsIn(c) == c.tags \/ c.default_tags

\* CreateInput that sends the directly specified fields on both branches.
CreateInputBothBranches(c) ==
  [fields |-> {"ReplicationGroupId"}
              \cup (IF c.engine_version THEN {"EngineVersion"} ELSE {})
              \cup (IF c.parameter_group_name # "" THEN {"CacheParameterGroupName"} ELSE {})
              \cup (IF c.global_replication_group_id # "" THEN {"GlobalReplicationGroupId"} ELSE {})
              \cup {"AutomaticFailoverEnabled", "CacheNodeType", "Engine", "TransitEncryptionEnabled"},
   tags |-> getTagsIn(c)]

\* The CreateReplicationGroupInput built from the configuration: the fields
\* that depend on global_replication_group_id, EngineVersion as one of the
\* two of the fields set on both branches, and Tags.
CreateInput(c) ==
  [fields |-> {"ReplicationGroupId"}
              \cup (IF c.engine_version THEN {"EngineVersion"} ELSE {})
              \cup (IF c.parameter_group_name # "" THEN {"CacheParameterGroupName"} ELSE {})
              \cup (IF c.global_replication_group_id # ""
                    THEN {"GlobalReplicationGroupId"}
                    ELSE {"AutomaticFailoverEnabled", "CacheNodeType", "Engine",
                          "TransitEncryptionEnabled"}),
   tags |-> getTagsIn(c)]

\* node_type is required unless global_replication_group_id is set.
NodeTypeMissing(c) == c.global_replication_group_id = "" /\ c.node_type = ""

\* The state before Create: no identifier, no remote object, a configuration.
InitCreate ==
  /\ pc = "create_start"
  /\ id = ""
  /\ diff = NoDiff
  /\ updateFuncs = << >>
  /\ idx = 0
  /\ polls = 0
  /\ remote = [exists |-> FALSE, status |-> "", memberStatus |-> cacheClusterStatusAvailable,
               nodeGroups |-> 1, replicas |-> 0, engine |-> engineRedis,
               pendNodeGroups |-> 1, pendReplicas |-> 0, global |-> "",
               member |-> "", detaching |-> FALSE,
               configurationEndpoint |-> FALSE, primaryEndpoint |-> TRUE,
               readerEndpoint |-> TRUE, nodeGroupsNil |-> FALSE]
  /\ state = NoState
  /\ diags = << >>
  /\ log = << >>
  /\ \E g \in {"", GlobalReplicationGroupID}, nt \in {"", "cache.m5.large"},
        t \in BOOLEAN, dt \in BOOLEAN, ev \in BOOLEAN, pg \in {"", "pg1"} :
       config = [isNew |-> TRUE, replication_group_id |-> ReplicationGroupID,
                 global_replication_group_id |-> g, node_type |-> nt,
                 tags |-> t, default_tags |-> dt, engine_version |-> ev,
                 parameter_group_name |-> pg]
  /\ input = NoInput

\* resourceReplicationGroupCreate up to its first remote call: the input is
\* built, or the pass ends with the node_type validation error.
BuildCreateInput ==
  /\ pc = "create_start"
  /\ IF NodeTypeMissing(config)
     THEN /\ pc' = "done"
          /\ diags' = Append(diags, "node_type is required")
          /\ input' = input
     ELSE /\ pc' = "create_call"
          /\ diags' = diags
          /\ input' = CreateInput(config)
  /\ UNCHANGED << id, diff, updateFuncs, idx, polls, remote, state, log, config >>

\* The payload of a CreateReplicationGroup call as it is logged.
Payload(in) == in.fields \cup (IF in.tags THEN {"Tags"} ELSE {})

\* The replication group right after the control plane accepted its creation.
Created(rg, c) ==
  [rg EXCEPT !.exists = TRUE, !.status = replicationGroupStatusCreating,
             !.global = IF c.global_replication_group_id # ""
                        THEN "modifying" ELSE "",
             !.member = IF c.global_replication_group_id # ""
                        THEN "associated" ELSE ""]

\* CreateReturns that leaves the identifier unset.
CreateReturnsWithoutSetId(res) ==
  IF res = "ok"
  THEN /\ id' = id
       /\ remote' = Created(remote, config)
       /\ pc' = "create_wait"
       /\ diags' = diags
  ELSE /\ pc' = "done"
       /\ diags' = Append(diags, "creating")
       /\ UNCHANGED << id, remote >>

\* A CreateReplicationGroup call has returned res and is not retried.
CreateReturns(res) ==
  IF res = "ok"
  THEN /\ id' = config.replication_group_id
       /\ remote' = Created(remote, config)
       /\ pc' = "create_wait"
       /\ diags' = diags
  ELSE /\ pc' = "done"
       /\ diags' = Append(diags, "creating")
       /\ UNCHANGED << id, remote >>

\* RetryWithoutTags that retries whatever the fault was.
RetryWithoutTagsOnAnyFault(in, res) == in.tags /\ res # "ok"

\* Some partitions may not support tag-on-create: the call is re-issued
\* without tags.
RetryWithoutTags(in, res) == in.tags /\ res = "unsupported"

\* The first CreateReplicationGroup call.
CreateReplicationGroup ==
  /\ pc = "create_call"
  /\ \E res \in CreateResults :
       /\ log' = Append(log, CallEv("CreateReplicationGroup", "create_call", 0, 0, << >>,
                                    Payload(input), res))
       /\ IF RetryWithoutTags(input, res)
          THEN /\ input' = [input EXCEPT !.tags = FALSE]
               /\ pc' = "create_retry"
               /\ UNCHANGED << id, remote, diags >>
          ELSE /\ input' = input
               /\ CreateReturns(res)
  /\ UNCHANGED << diff, updateFuncs, idx, polls, state, config >>

\* CreateReplicationGroupWithoutTags that goes on to the wait when the
\* re-issued call has failed.
CreateReplicationGroupWithoutTagsErrorDropped ==
  /\ pc = "create_retry"
  /\ \E res \in CreateResults :
       /\ log' = Append(log, CallEv("CreateReplicationGroup", "create_retry", 0, 0, << >>,
                                    Payload(input), res))
       /\ IF res = "ok" THEN CreateReturns(res)
          ELSE /\ pc' = "create_wait"
               /\ UNCHANGED << id, remote, diags >>
  /\ UNCHANGED << diff, updateFuncs, idx, polls, state, config, input >>

\* The CreateReplicationGroup call re-issued without tags.
CreateReplicationGroupWithoutTags ==
  /\ pc = "create_retry"
  /\ \E res \in CreateResults :
       /\ log' = Append(log, CallEv("CreateReplicationGroup", "create_retry", 0, 0, << >>,
                                    Payload(input), res))
       /\ CreateReturns(res)
  /\ UNCHANGED << diff, updateFuncs, idx, polls, state, config, input >>

\* WaitStep that goes on with the pass when the wait has failed.
WaitStepErrorIgnored(p, waiter, r, out, next, diag) ==
  /\ pc = p
  /\ IF out = "continue"
     THEN /\ polls' = polls + 1
          /\ UNCHANGED << pc, diags, log >>
     ELSE /\ polls' = 0
          /\ log' = Append(log, WaitEv(waiter, p, 0, r.status, out))
          /\ pc' = next
          /\ diags' = diags
  /\ UNCHANGED << id, diff, updateFuncs, idx, remote, state, config, input >>

\* One poll of a wait of a Create or Delete pass at position p: on success
\* the pass continues at next, on failure it ends with diag.
WaitStep(p, waiter, r, out, next, diag) ==
  /\ pc = p
  /\ IF out = "continue"
     THEN /\ polls' = polls + 1
          /\ UNCHANGED << pc, diags, log >>
     ELSE /\ polls' = 0
          /\ log' = Append(log, WaitEv(waiter, p, 0, r.status, out))
          /\ IF out = "ok"
             THEN /\ pc' = next
                  /\ diags' = diags
             ELSE /\ pc' = "done"
                  /\ diags' = Append(diags, diag)
  /\ UNCHANGED << id, diff, updateFuncs, idx, remote, state, config, input >>

\* For partitions not supporting tag-on-create, tag after create.
TagAfterCreate(in, c) == ~ in.tags /\ getTagsIn(c)

\* Where Create continues once the waits are over.
AfterCreateWaits(in, c) == IF TagAfterCreate(in, c) THEN "create_tags" ELSE "read_find"

\* AfterCreateWait that skips the wait for the global replication group.
AfterCreateWaitNoGlobalWait(in, c) == AfterCreateWaits(in, c)

\* Where Create continues once the new group is available.
AfterCreateWait(in, c) ==
  IF c.global_replication_group_id # "" THEN "create_global_wait"
  ELSE AfterCreateWaits(in, c)

\* CreateWaitAvailable that takes create-failed for a pending status.
CreateWaitAvailableFailedIsPending ==
  \E transportErr \in BOOLEAN :
    WaitStep("create_wait", "waitReplicationGroupAvailable",
             statusReplicationGroup(transportErr),
             WaitForState(AvailablePending \cup {replicationGroupStatusCreateFailed}, AvailableTarget,
                          statusReplicationGroup(transportErr), polls + 1),
             AfterCreateWait(input, config), "waiting for create")

\* waitReplicationGroupAvailable of Create, one poll.
CreateWaitAvailable ==
  \E transportErr \in BOOLEAN :
    WaitStep("create_wait", "waitReplicationGroupAvailable",
             statusReplicationGroup(transportErr),
             WaitForState(AvailablePending, AvailableTarget,
                          statusReplicationGroup(transportErr), polls + 1),
             AfterCreateWait(input, config), "waiting for create")

\* The status function of the global replication group waiters.
statusGlobalReplicationGroup(transportErr) ==
  IF transportErr THEN [err |-> "error", found |-> FALSE, status |-> ""]
  ELSE IF remote.global = "" THEN [err |-> "", found |-> FALSE, status |-> ""]
  ELSE [err |-> "", found |-> TRUE, status |-> remote.global]

GlobalAvailablePending == {"creating", "modifying"}
GlobalAvailableTarget == {"available"}

\* waitGlobalReplicationGroupAvailable of Create, one poll.
CreateWaitGlobalAvailable ==
  \E transportErr \in BOOLEAN :
    WaitStep("create_global_wait", "waitGlobalReplicationGroupAvailable",
             statusGlobalReplicationGroup(transportErr),
             WaitForState(GlobalAvailablePending, GlobalAvailableTarget,
                          statusGlobalReplicationGroup(transportErr), polls + 1),
             AfterCreateWaits(input, config), "waiting for global available")

\* TagFaultSwallowed that swallows the fault whatever tags are configured.
TagFaultSwallowedAlways(c, res) == res = "unsupported"

\* If default tags only, continue. Otherwise, error.
TagFaultSwallowed(c, res) == ~ c.tags /\ res = "unsupported"

\* createTags after the waits.
CreateTags ==
  /\ pc = "create_tags"
  /\ \E res \in CreateResults :
       /\ log' = Append(log, CallEv("createTags", "create_tags", 0, 0, << >>, {"Tags"}, res))
       /\ IF res # "ok" /\ ~ TagFaultSwallowed(config, res)
          THEN /\ pc' = "done"
               /\ diags' = Append(diags, "setting tags")
          ELSE /\ pc' = "read_find"
               /\ diags' = diags
  /\ UNCHANGED << id, diff, updateFuncs, idx, polls, remote, state, config, input >>

\* The creation in flight ends: the group becomes available or fails.
RemoteCreateSettle ==
  /\ pc \notin {"create_start", "done"}
  /\ remote.exists
  /\ remote.status = replicationGroupStatusCreating
  /\ \E s \in {replicationGroupStatusAvailable, replicationGroupStatusCreateFailed} :
       remote' = [remote EXCEPT !.status = s]
  /\ UNCHANGED << pc, id, diff, updateFuncs, idx, polls, state, diags, log, config, input >>

\* The global replication group finishes linking the new member.
RemoteGlobalSettle ==
  /\ pc \notin {"create_start", "done"}
  /\ remote.global = "modifying"
  /\ remote' = [remote EXCEPT !.global = "available"]
  /\ UNCHANGED << pc, id, diff, updateFuncs, idx, polls, state, diags, log, config, input >>

NextCreate ==
  \/ BuildCreateInput
  \/ CreateReplicationGroup
  \/ CreateReplicationGroupWithoutTags
  \/ CreateWaitAvailable
  \/ CreateWaitGlobalAvailable
  \/ CreateTags
  \/ ReadFind
  \/ WaitReplicationGroupAvailable
  \/ ReadCacheClusters
  \/ RemoteCreateSettle
  \/ RemoteGlobalSettle

SpecCreate == InitCreate /\ [][NextCreate]_vars

\* ------------------------------------------------------ the Delete pass
\* What the control plane answers to DisassociateGlobalReplicationGroup:
\* success, InvalidGlobalReplicationGroupStateFault,
\* GlobalReplicationGroupNotFoundFault, InvalidParameterValueException "is
\* not associated with Global Replication Group", or any other fault.
DisassociateResults(rg) ==
  IF rg.member # "" THEN {"ok", "invalid_global_state", "fault"}
  ELSE {"global_notfound", "not_associated", "fault"}

\* What the control plane answers to DeleteReplicationGroup: success,
\* InvalidReplicationGroupStateFault, ReplicationGroupNotFoundFault, or any
\* other fault.
DeleteResults(rg) ==
  IF rg.exists THEN {"ok", "invalid_state", "fault"} ELSE {"notfound", "fault"}

\* The state before Delete: an identifier, a configuration, and the remote
\* group in any status, or already gone.
InitDelete ==
  /\ pc = "delete_start"
  /\ id = ReplicationGroupID
  /\ diff = NoDiff
  /\ updateFuncs = << >>
  /\ idx = 0
  /\ polls = 0
  /\ state = NoState
  /\ diags = << >>
  /\ log = << >>
  /\ input = NoInput
  /\ \E g \in {"", GlobalReplicationGroupID}, pg \in {"", "pg1"} :
       config = [isNew |-> FALSE, replication_group_id |-> ReplicationGroupID,
                 global_replication_group_id |-> g, parameter_group_name |-> pg]
  /\ \E x \in BOOLEAN, m \in BOOLEAN,
        s \in {replicationGroupStatusAvailable, replicationGroupStatusCreating,
               replicationGroupStatusSnapshotting} :
       remote = [exists |-> x, status |-> IF x THEN s ELSE "",
                 memberStatus |-> cacheClusterStatusAvailable,
                 nodeGroups |-> 1, replicas |-> 0, engine |-> engineRedis,
                 pendNodeGroups |-> 1, pendReplicas |-> 0,
                 global |-> IF m /\ x /\ config.global_replication_group_id # ""
                            THEN "available" ELSE "",
                 member |-> IF m /\ x /\ config.global_replication_group_id # ""
                            THEN "associated" ELSE "",
                 detaching |-> FALSE,
                 configurationEndpoint |-> FALSE, primaryEndpoint |-> TRUE,
                 readerEndpoint |-> TRUE, nodeGroupsNil |-> FALSE]

\* resourceReplicationGroupDelete up to its first remote call.
StartDelete ==
  /\ pc = "delete_start"
  /\ pc' = IF config.global_replication_group_id # "" THEN "disassociate_call" ELSE "delete_call"
  /\ UNCHANGED << id, diff, updateFuncs, idx, polls, remote, state, diags, log, config, input >>

\* Retried that re-issues the call after any fault.
RetriedOnAnyFault(res, fault, n) == res # "ok" /\ n < MaxRetries

\* RetryWhenIsA: the call is re-issued after the retried fault while the
\* window lasts, n being the times it has been re-issued so far.
Retried(res, fault, n) == res = fault /\ n < MaxRetries

\* DisassociateTolerated that lets every fault count as success.
DisassociateToleratesAnyFault(res) == res # "ok"

\* The faults of the disassociate call that count as success.
DisassociateTolerated(res) == res \in {"global_notfound", "not_associated"}

\* One DisassociateGlobalReplicationGroup call of disassociateReplicationGroup.
DisassociateGlobalReplicationGroup ==
  /\ pc = "disassociate_call"
  /\ \E res \in DisassociateResults(remote) :
       /\ log' = Append(log, CallEv("DisassociateGlobalReplicationGroup", "disassociate_call",
                                    0, 0, << >>, {}, res))
       /\ IF Retried(res, "invalid_global_state", polls)
          THEN /\ polls' = polls + 1
               /\ UNCHANGED << pc, remote, diags >>
          ELSE /\ polls' = 0
               /\ IF DisassociateTolerated(res)
                  THEN /\ pc' = "delete_call"
                       /\ UNCHANGED << remote, diags >>
                  ELSE IF res # "ok"
                  THEN /\ pc' = "done"
                       /\ diags' = Append(diags, "disassociating")
                       /\ remote' = remote
                  ELSE /\ pc' = "detach_wait"
                       /\ remote' = [remote EXCEPT !.detaching = TRUE]
                       /\ diags' = diags
  /\ UNCHANGED << id, diff, updateFuncs, idx, state, config, input >>

\* The status function of waitGlobalReplicationGroupMemberDetached.
statusGlobalReplicationGroupMember(transportErr) ==
  IF transportErr THEN [err |-> "error", found |-> FALSE, status |-> ""]
  ELSE IF remote.member = "" THEN [err |-> "", found |-> FALSE, status |-> ""]
  ELSE [err |-> "", found |-> TRUE, status |-> remote.member]

MemberDetachedPending == {"associated"}
MemberDetachedTarget == {}

\* waitGlobalReplicationGroupMemberDetached, one poll.
WaitGlobalReplicationGroupMemberDetached ==
  \E transportErr \in BOOLEAN :
    WaitStep("detach_wait", "waitGlobalReplicationGroupMemberDetached",
             statusGlobalReplicationGroupMember(transportErr),
             WaitForState(MemberDetachedPending, MemberDetachedTarget,
                          statusGlobalReplicationGroupMember(transportErr), polls + 1),
             "delete_call", "waiting for detach")

\* AfterDelete that deletes the parameter group of any group.
AfterDeleteIgnoresGlobal(c) ==
  IF c.parameter_group_name # "" THEN "delete_parameter_group" ELSE "done"

\* Where Delete continues once the group is deleted or was not found.
AfterDelete(c) ==
  IF c.global_replication_group_id # "" /\ c.parameter_group_name # ""
  THEN "delete_parameter_group" ELSE "done"

\* AfterDeleteCall that waits for deletion after the not-found fault too.
AfterDeleteCallWaitsAlways(c, res) ==
  IF res \in {"ok", "notfound"} THEN "delete_wait" ELSE "done"

\* Where Delete continues after the last DeleteReplicationGroup call
\* returned res: the switch on its error.
AfterDeleteCall(c, res) ==
  IF res = "notfound" THEN AfterDelete(c)
  ELSE IF res # "ok" THEN "done"
  ELSE "delete_wait"

\* The statuses the group may report once its deletion is accepted: the
\* deletion has started, or the status before the call is still reported.
DeleteAcceptedStatuses(rg) == {replicationGroupStatusDeleting, rg.status}

\* One DeleteReplicationGroup call.
DeleteReplicationGroup ==
  /\ pc = "delete_call"
  /\ \E res \in DeleteResults(remote), accepted \in DeleteAcceptedStatuses(remote) :
       /\ log' = Append(log, CallEv("DeleteReplicationGroup", "delete_call",
                                    0, 0, << >>, {}, res))
       /\ IF Retried(res, "invalid_state", polls)
          THEN /\ polls' = polls + 1
               /\ UNCHANGED << pc, remote, diags >>
          ELSE /\ polls' = 0
               /\ pc' = AfterDeleteCall(config, res)
               /\ diags' = IF res \in {"ok", "notfound"} THEN diags
                           ELSE Append(diags, "deleting")
               /\ remote' = IF res = "ok" /\ remote.exists
                            THEN [remote EXCEPT !.status = accepted]
                            ELSE remote
  /\ UNCHANGED << id, diff, updateFuncs, idx, state, config, input >>

\* Pending of waitReplicationGroupDeleted with snapshotting added.
DeletedPendingWithSnapshotting ==
  {replicationGroupStatusCreating, replicationGroupStatusAvailable,
   replicationGroupStatusDeleting, replicationGroupStatusSnapshotting}

DeletedPending ==
  {replicationGroupStatusCreating, replicationGroupStatusAvailable, replicationGroupStatusDeleting}
DeletedTarget == {}

\* waitReplicationGroupDeleted, one poll.
WaitReplicationGroupDeleted ==
  \E transportErr \in BOOLEAN :
    WaitStep("delete_wait", "waitReplicationGroupDeleted",
             statusReplicationGroup(transportErr),
             WaitForState(DeletedPending, DeletedTarget,
                          statusReplicationGroup(transportErr), polls + 1),
             AfterDelete(config), "waiting for delete")

\* deleteParameterGroup of a group that was linked to a global group.
DeleteParameterGroup ==
  /\ pc = "delete_parameter_group"
  /\ \E res \in {"ok", "fault"} :
       /\ log' = Append(log, CallEv("deleteParameterGroup", "delete_parameter_group",
                                    0, 0, << >>, {}, res))
       /\ diags' = IF res = "ok" THEN diags ELSE Append(diags, "deleting parameter group")
  /\ pc' = "done"
  /\ UNCHANGED << id, diff, updateFuncs, idx, polls, remote, state, config, input >>

\* The deletion in flight ends: the group is gone.
RemoteDeleted ==
  /\ pc \notin {"delete_start", "done"}
  /\ remote.exists
  /\ remote.status = replicationGroupStatusDeleting \/ pc = "delete_wait"
  /\ remote' = [remote EXCEPT !.exists = FALSE, !.status = "", !.member = ""]
  /\ UNCHANGED << pc, id, diff, updateFuncs, idx, polls, state, diags, log, config, input >>

\* The disassociation in flight ends: the group is no member any more.
RemoteMemberDetached ==
  /\ pc \notin {"delete_start", "done"}
  /\ remote.detaching
  /\ remote.member # ""
  /\ remote' = [remote EXCEPT !.member = "", !.detaching = FALSE]
  /\ UNCHANGED << pc, id, diff, updateFuncs, idx, polls, state, diags, log, config, input >>

NextDelete ==
  \/ StartDelete
  \/ DisassociateGlobalReplicationGroup
  \/ WaitGlobalReplicationGroupMemberDetached
  \/ DeleteReplicationGroup
  \/ WaitReplicationGroupDeleted
  \/ DeleteParameterGroup
  \/ RemoteDeleted
  \/ RemoteMemberDetached

SpecDelete == InitDelete /\ [][NextDelete]_vars

\* ------------------------------------------------- the paginated finder
\* findReplicationGroup on a listing: remote holds the pages the control
\* plane returns, each a sequence of replication groups or a fault, and the
\* filter as the set of groups it accepts; idx is the page the paginator is
\* at and state holds the output collected so far and the result.
ListedGroups == {"rg1", "rg2"}
PageFaults == {"notfoundfault", "fault"}

\* The sequences over S of length at most n.
SeqsUpTo(S, n) == UNION {[1..k -> S] : k \in 0..n}

\* What pages.NextPage can return: a page of groups or an error.
Pages ==
  {[err |-> "", groups |-> g] : g \in SeqsUpTo(ListedGroups, MaxPageLen)}
    \cup {[err |-> e, groups |-> << >>] : e \in PageFaults}

InitFinder ==
  /\ pc = "find_pages"
  /\ id = ReplicationGroupID
  /\ diff = NoDiff
  /\ updateFuncs = << >>
  /\ idx = 1
  /\ polls = 0
  /\ \E pages \in SeqsUpTo(Pages, MaxPages),
        filter \in {ListedGroups, {"rg1"}} :
       remote = [pages |-> pages, filter |-> filter]
  /\ state = [output |-> << >>, result |-> "", err |-> "",
              refresh |-> [err |-> "", found |-> FALSE, status |-> ""]]
  /\ diags = << >>
  /\ log = << >>
  /\ config = NoConfig
  /\ input = NoInput

\* A page error handling that takes every error for the not-found fault.
PageErrorAlwaysNotFound(e) == "notfound"

\* The error findReplicationGroups returns for the error of a page: the
\* NotFound error for the not-found fault, any other error unchanged.
PageError(e) == IF e = "notfoundfault" THEN "notfound" ELSE e

\* HasMorePages that stops after the first page.
HasMorePagesFirstOnly(pages, i) == i <= Len(pages) /\ i <= 1

\* pages.HasMorePages() before page i is fetched.
HasMorePages(pages, i) == i <= Len(pages)

\* for _, v := range page.ReplicationGroups { if filter(&v) { append } }
RECURSIVE FilterPage(_, _)
FilterPage(page, filter) ==
  IF page = << >> THEN << >>
  ELSE (IF Head(page) \in filter THEN << Head(page) >> ELSE << >>)
       \o FilterPage(Tail(page), filter)

\* One turn of the loop of findReplicationGroups: the next page is fetched;
\* a not-found fault becomes the NotFound error, any other error is
\* returned as it is, and the groups the filter accepts are collected.
FindNextPage ==
  /\ pc = "find_pages"
  /\ HasMorePages(remote.pages, idx)
  /\ LET page == remote.pages[idx]
     IN  IF page.err # ""
         THEN /\ state' = [state EXCEPT !.err = PageError(page.err),
                                        !.output = << >>]
              /\ pc' = "done"
              /\ idx' = idx
         ELSE /\ state' = [state EXCEPT !.output = state.output \o FilterPage(page.groups, remote.filter)]
              /\ idx' = idx + 1
              /\ pc' = pc
  /\ UNCHANGED << id, diff, updateFuncs, polls, remote, diags, log, config, input >>

\* tfresource.AssertSingleValueResult.
AssertSingleValueResult(output) ==
  IF Len(output) = 0 THEN [result |-> "", err |-> "empty result"]
  ELSE IF Len(output) > 1 THEN [result |-> "", err |-> "too many results"]
  ELSE [result |-> output[1], err |-> ""]

\* findReplicationGroup once findReplicationGroups has returned its output.
FindAssertSingle ==
  /\ pc = "find_pages"
  /\ ~ HasMorePages(remote.pages, idx)
  /\ state' = [state EXCEPT !.result = AssertSingleValueResult(state.output).result,
                             !.err = AssertSingleValueResult(state.output).err]
  /\ pc' = "done"
  /\ UNCHANGED << id, diff, updateFuncs, idx, polls, remote, diags, log, config, input >>

\* statusReplicationGroup on the result of the finder, as a waiter calls it
\* at a poll; a listed group is in status "available".
StatusRefresh ==
  /\ pc = "done"
  /\ state' = [state EXCEPT !.refresh =
                 Refresh([err |-> state.err,
                          status |-> IF state.err = "" THEN replicationGroupStatusAvailable ELSE ""])]
  /\ pc' = "status_done"
  /\ UNCHANGED << id, diff, updateFuncs, idx, polls, remote, diags, log, config, input >>

NextFinder ==
  \/ FindNextPage
  \/ FindAssertSingle
  \/ StatusRefresh

SpecFinder == InitFinder /\ [][NextFinder]_vars

\* --------------------------------------------------- one Read invocation
\* The statuses a replication group can be found in.
ReplicationGroupStatuses ==
  {replicationGroupStatusAvailable, replicationGroupStatusCreateFailed,
   replicationGroupStatusCreating, replicationGroupStatusDeleting,
   replicationGroupStatusModifying, replicationGroupStatusSnapshotting}

\* The state when resourceReplicationGroupRead is entered: on its own or at
\* the end of Update (d.IsNewResource() false) or at the end of Create
\* (true), with the remote group in any status, or gone.
InitRead ==
  /\ pc = "read_find"
  /\ id = ReplicationGroupID
  /\ diff = NoDiff
  /\ updateFuncs = << >>
  /\ idx = 0
  /\ polls = 0
  /\ state = NoState
  /\ diags = << >>
  /\ log = << >>
  /\ input = NoInput
  /\ \E new \in BOOLEAN : config = [isNew |-> new]
  /\ \E x \in BOOLEAN, s \in ReplicationGroupStatuses,
        g \in 0..MaxShards, r \in 0..MaxReplicas,
        c \in BOOLEAN, pe \in BOOLEAN, re \in BOOLEAN, nil \in BOOLEAN :
       /\ ~ x => (g = 1 /\ r = 0 /\ ~ c /\ pe /\ re)
       /\ g = 0 => (r = 0 /\ pe /\ re)
       /\ nil => g = 0
       /\ remote = [exists |-> x, status |-> IF x THEN s ELSE "",
                    memberStatus |-> cacheClusterStatusAvailable,
                    nodeGroups |-> g, replicas |-> r,
                    engine |-> engineRedis,
                    pendNodeGroups |-> g, pendReplicas |-> r,
                    global |-> "", member |-> "", detaching |-> FALSE,
                    configurationEndpoint |-> c, primaryEndpoint |-> pe,
                    readerEndpoint |-> re, nodeGroupsNil |-> nil]

NextRead ==
  \/ ReadFind
  \/ WaitReplicationGroupAvailable
  \/ ReadCacheClusters
  \/ RemoteSettle
  \/ RemoteCreateSettle

SpecRead == InitRead /\ [][NextRead]_vars

\* ----------------------------------------------- the availability waiter
\* waitReplicationGroupAvailable on its own: remote holds what the finder
\* answers at each poll, polls counts the polls made, and state holds what
\* the waiter returns and the statuses it observed.
FinderAnswers ==
  {[err |-> "", status |-> s] : s \in ReplicationGroupStatuses}
    \cup {[err |-> e, status |-> ""] : e \in {"notfound", "error"}}

InitWaiter ==
  /\ pc = "wait_available"
  /\ id = ReplicationGroupID
  /\ diff = NoDiff
  /\ updateFuncs = << >>
  /\ idx = 0
  /\ polls = 0
  /\ \E answers \in [1..MaxPolls -> FinderAnswers] : remote = [answers |-> answers]
  /\ state = [out |-> "", status |-> "", observed |-> << >>]
  /\ diags = << >>
  /\ log = << >>
  /\ config = NoConfig
  /\ input = NoInput

\* One poll of waitReplicationGroupAvailable: Refresh is called and the
\* wait goes on, returns the object, or ends with an error.
WaitAvailablePoll ==
  /\ pc = "wait_available"
  /\ polls < Len(remote.answers)
  /\ LET r == Refresh(remote.answers[polls + 1])
         out == WaitForState(AvailablePending, AvailableTarget, r, polls + 1)
     IN  /\ polls' = polls + 1
         /\ state' = [out |-> IF out = "continue" THEN "" ELSE out,
                      status |-> IF out = "continue" THEN "" ELSE r.status,
                      observed |-> Append(state.observed, r.status)]
         /\ pc' = IF out = "continue" THEN pc ELSE "done"
  /\ UNCHANGED << id, diff, updateFuncs, idx, remote, diags, log, config, input >>

NextWaiter == WaitAvailablePoll

SpecWaiter == InitWaiter /\ [][NextWaiter]_vars

\* ------------------------------------------- the passes on one resource
\* Create followed by any sequence of Read, Update and Delete passes on the
\* resource it created.  The Updates of this specification change
\* description and tags only (Spec has the topology, engine and auth token
\* changes); between passes the group may be deleted out of band.
LifecycleAttrs == {"description", "tags"}

InitLifecycle ==
  /\ InitCreate
  /\ config.node_type # ""
  /\ ~ config.tags /\ ~ config.default_tags /\ ~ config.engine_version

\* The Delete pass has deleted the group: the resource leaves the state.
DeleteSucceeded ==
  /\ pc = "done"
  /\ diags = << >>
  /\ \E j \in 1..Len(log) :
       log[j].at \in {"delete_call", "delete_wait", "delete_parameter_group"}

\* The pass has returned and the resource is still in the state: it is
\* ready for its next pass.
ReturnFromPass ==
  /\ pc = "done"
  /\ id # ""
  /\ ~ DeleteSucceeded
  /\ pc' = "idle"
  /\ diff' = NoDiff
  /\ updateFuncs' = << >>
  /\ idx' = 0
  /\ polls' = 0
  /\ diags' = << >>
  /\ log' = << >>
  /\ input' = NoInput
  /\ config' = [config EXCEPT !.isNew = FALSE]
  /\ UNCHANGED << id, remote, state >>

\* A Read pass (refresh) starts.
BeginRead ==
  /\ pc = "idle"
  /\ pc' = "read_find"
  /\ UNCHANGED << id, diff, updateFuncs, idx, polls, remote, state, diags, log, config, input >>

\* An Update pass starts, on a diff within LifecycleAttrs.
BeginUpdate ==
  /\ StartUpdate
  /\ diff'.changed \subseteq LifecycleAttrs
  /\ ~ HasChanges(diff', {"num_node_groups", "replicas_per_node_group",
                          "num_cache_clusters", "engine"})

\* A Delete pass starts.
BeginDelete ==
  /\ pc = "idle"
  /\ pc' = "delete_start"
  /\ UNCHANGED << id, diff, updateFuncs, idx, polls, remote, state, diags, log, config, input >>

\* Between two passes the group is deleted out of band.
RemoteDeleteOutOfBand ==
  /\ pc = "idle"
  /\ remote.exists
  /\ remote.status = replicationGroupStatusAvailable
  /\ remote' = [remote EXCEPT !.status = replicationGroupStatusDeleting]
  /\ UNCHANGED << pc, id, diff, updateFuncs, idx, polls, state, diags, log, config, input >>

NextLifecycle ==
  \/ BuildCreateInput
  \/ CreateReplicationGroup
  \/ CreateWaitAvailable
  \/ CreateWaitGlobalAvailable
  \/ RemoteCreateSettle
  \/ RemoteGlobalSettle
  \/ ReturnFromPass
  \/ BeginRead
  \/ ReadFind
  \/ WaitReplicationGroupAvailable
  \/ ReadCacheClusters
  \/ BeginUpdate
  \/ ModifyReplicationGroup
  \/ RemoteSettle
  \/ BeginDelete
  \/ StartDelete
  \/ DisassociateGlobalReplicationGroup
  \/ WaitGlobalReplicationGroupMemberDetached
  \/ DeleteReplicationGroup
  \/ WaitReplicationGroupDeleted
  \/ DeleteParameterGroup
  \/ RemoteDeleted
  \/ RemoteMemberDetached
  \/ RemoteDeleteOutOfBand

SpecLifecycle == InitLifecycle /\ [][NextLifecycle]_vars

\* ------------------------------------------------ any pass of the resource
\* One pass of the resource, whichever it is: a behaviour starts as a
\* Create, an Update or a Delete pass and runs it to its end.  The Update
\* passes are those on a redis group (Spec has both engines).
InitResource ==
  \/ InitCreate
  \/ Init /\ remote.engine = engineRedis
  \/ InitDelete

NextResource ==
  \/ BuildCreateInput
  \/ CreateReplicationGroup
  \/ CreateReplicationGroupWithoutTags
  \/ CreateWaitAvailable
  \/ CreateWaitGlobalAvailable
  \/ CreateTags
  \/ RemoteCreateSettle
  \/ RemoteGlobalSettle
  \/ StartUpdate
  \/ ShardNumNodeGroups
  \/ ShardReplicasPerNodeGroup
  \/ IncreaseReplicaCount
  \/ DecreaseReplicaCount
  \/ ModifyReplicationGroup
  \/ ModifyAuthToken
  \/ WaitReplicationGroupAvailable
  \/ WaitReplicationGroupMemberClustersAvailable
  \/ ReadFind
  \/ ReadCacheClusters
  \/ RemoteMembersSettle
  \/ RemoteSettle
  \/ StartDelete
  \/ DisassociateGlobalReplicationGroup
  \/ WaitGlobalReplicationGroupMemberDetached
  \/ DeleteReplicationGroup
  \/ WaitReplicationGroupDeleted
  \/ DeleteParameterGroup
  \/ RemoteDeleted
  \/ RemoteMemberDetached

SpecResource == InitResource /\ [][NextResource]_vars

\* ------------------------------------------------ the Glacier vault Update
\* The access policy documents of the model: none, a document, the same
\* document with other white space, another document, and a string that
\* is not JSON.
VaultPolicies == {"", "{a}", "{ a }", "{b}", "{"}
\* The policies a stored state holds: validated and normalized.
VaultStatePolicies == {"", "{a}", "{b}"}
\* The notification blocks of the model: none, or one of two blocks.
VaultNotifications == {"", "n1", "n2"}
VaultName == "vault1"

\* structure.NormalizeJsonString: the document re-marshalled, or an error
\* when it does not parse.
NormalizeJsonString(v) ==
  CASE v = "{ a }" -> [err |-> FALSE, json |-> "{a}"]
    [] v = "{" -> [err |-> TRUE, json |-> v]
    [] OTHER -> [err |-> FALSE, json |-> v]

\* d.HasChange(a) of the vault resource.
VaultHasChange(d, a) == d[a][1] # d[a][2]

\* d.GetOk(a): the new value is not the zero value.
VaultGetOk(d, a) == d[a][2] # ""

\* AccessPolicyStep that looks at the new value alone, as Create does.
AccessPolicyStepWithoutHasChange(d) ==
  IF ~ VaultGetOk(d, "access_policy") THEN "none"
  ELSE IF NormalizeJsonString(d.access_policy[2]).err THEN "invalid"
  ELSE "vault_set_policy"

\* What resourceVaultUpdate does about access_policy.
AccessPolicyStep(d) ==
  IF ~ VaultHasChange(d, "access_policy") THEN "none"
  ELSE IF ~ VaultGetOk(d, "access_policy") THEN "vault_delete_policy"
  ELSE IF NormalizeJsonString(d.access_policy[2]).err THEN "invalid"
  ELSE "vault_set_policy"

\* What resourceVaultUpdate does about notification.
NotificationStep(d) ==
  IF ~ VaultHasChange(d, "notification") THEN "vault_read"
  ELSE IF VaultGetOk(d, "notification") THEN "vault_set_notifications"
  ELSE "vault_delete_notifications"

\* verify.PolicyToSet: the configured document is kept when the remote one
\* is equivalent to it.
PolicyToSet(configured, remotePolicy) ==
  IF /\ configured # ""
     /\ ~ NormalizeJsonString(configured).err
     /\ NormalizeJsonString(configured).json = remotePolicy
  THEN configured ELSE remotePolicy

InitVault ==
  /\ pc = "vault_update"
  /\ id = VaultName
  /\ \E po \in VaultStatePolicies, pn \in VaultPolicies,
        no \in VaultNotifications, nn \in VaultNotifications :
       /\ diff = [access_policy |-> << po, pn >>, notification |-> << no, nn >>]
       /\ remote = [access_policy |-> po, notification |-> no]
       /\ state = [access_policy |-> po, notification |-> no]
  /\ updateFuncs = << >>
  /\ idx = 0
  /\ polls = 0
  /\ diags = << >>
  /\ log = << >>
  /\ config = NoConfig
  /\ input = NoInput

\* resourceVaultUpdate up to its first remote call.
StartVaultUpdate ==
  /\ pc = "vault_update"
  /\ IF AccessPolicyStep(diff) = "invalid"
     THEN /\ pc' = "done"
          /\ diags' = Append(diags, "normalizing policy")
     ELSE /\ pc' = IF AccessPolicyStep(diff) = "none" THEN NotificationStep(diff)
                   ELSE AccessPolicyStep(diff)
          /\ diags' = diags
  /\ UNCHANGED << id, diff, updateFuncs, idx, polls, remote, state, log, config, input >>

\* One call of the vault Update at position p: it changes attribute a of
\* the vault to v, and the pass goes on at next when it succeeded.
VaultCall(p, api, a, v, next, diag) ==
  /\ pc = p
  /\ \E res \in {"ok", "fault"} :
       /\ log' = Append(log, CallEv(api, p, 0, 0, << >>, {v}, res))
       /\ IF res = "ok"
          THEN /\ remote' = [remote EXCEPT ![a] = v]
               /\ pc' = next
               /\ diags' = diags
          ELSE /\ remote' = remote
               /\ pc' = "done"
               /\ diags' = Append(diags, diag)
  /\ UNCHANGED << id, diff, updateFuncs, idx, polls, state, config, input >>

SetVaultAccessPolicy ==
  VaultCall("vault_set_policy", "SetVaultAccessPolicy", "access_policy",
            NormalizeJsonString(diff.access_policy[2]).json,
            NotificationStep(diff), "setting access policy")

DeleteVaultAccessPolicy ==
  VaultCall("vault_delete_policy", "DeleteVaultAccessPolicy", "access_policy", "",
            NotificationStep(diff), "deleting access policy")

SetVaultNotifications ==
  VaultCall("vault_set_notifications", "SetVaultNotifications", "notification",
            diff.notification[2], "vault_read", "setting notifications")

DeleteVaultNotifications ==
  VaultCall("vault_delete_notifications", "DeleteVaultNotifications", "notification", "",
            "vault_read", "deleting notifications")

\* resourceVaultRead at the end of the Update: the vault is looked up,
\* then its access policy and its notifications.
resourceVaultRead ==
  /\ pc = "vault_read"
  /\ \E res \in {"ok", "notfound", "fault"} :
       /\ log' = Append(log, Ev("read", "findVaultByName", "vault_read", 0, 0,
                                << >>, {}, "", res))
       /\ id' = IF res = "notfound" THEN "" ELSE id
       /\ diags' = IF res = "fault" THEN Append(diags, "reading") ELSE diags
       /\ state' = IF res = "ok"
                   THEN [access_policy |-> PolicyToSet(diff.access_policy[2],
                                                       remote.access_policy),
                         notification |-> remote.notification]
                   ELSE state
  /\ pc' = "done"
  /\ UNCHANGED << diff, updateFuncs, idx, polls, remote, config, input >>

NextVault ==
  \/ StartVaultUpdate
  \/ SetVaultAccessPolicy
  \/ DeleteVaultAccessPolicy
  \/ SetVaultNotifications
  \/ DeleteVaultNotifications
  \/ resourceVaultRead

SpecVault == InitVault /\ [][NextVault]_vars

\* ------------------------------------------------------------ properties
CallIdx == {j \in 1..Len(log) : log[j].ev = "call"}

\* The remote mutation calls of the pass, in the order issued.
Calls == SelectSeq(log, LAMBDA e : e.ev = "call")

\* A finished waitReplicationGroupAvailable that observed status available.
IsAvailableOk(e) ==
  /\ e.ev = "wait"
  /\ e.api = "waitReplicationGroupAvailable"
  /\ e.res = "ok"
  /\ e.status = replicationGroupStatusAvailable

\* A ModifyReplicationGroup call that carries the credential.
IsCredentialCall(e) ==
  /\ e.ev = "call"
  /\ e.api = "ModifyReplicationGroup"
  /\ e.fields \cap {"AuthToken", "AuthTokenUpdateStrategy"} # {}

\* A ModifyReplicationGroup call that carries no credential.
IsGenericCall(e) ==
  /\ e.ev = "call"
  /\ e.api = "ModifyReplicationGroup"
  /\ e.fields \cap {"AuthToken", "AuthTokenUpdateStrategy"} = {}

\* The API each class of planned operation may call.
ClassApis(class) ==
  CASE class = 1 -> {"ModifyReplicationGroupShardConfiguration", "IncreaseReplicaCount", "DecreaseReplicaCount"}
    [] class = 2 -> {"IncreaseReplicaCount"}
    [] class = 3 -> {"ModifyReplicationGroup"}
    [] class = 4 -> {"ModifyReplicationGroup"}
    [] class = 5 -> {"DecreaseReplicaCount"}

InRead == pc \in {"read_find", "read_wait", "read_clusters"}

\* The Update pass has run to its end without a diagnostic.
UpdateSucceeded == pc = "done" /\ diags = << >> /\ id # ""

C2_DecreaseIsLastCall ==
  \A j \in CallIdx :
    log[j].api = "DecreaseReplicaCount" => \A k \in CallIdx : k <= j

\* C3: when num_node_groups changes and replicas_per_node_group increases, the
\* IncreaseReplicaCount call is issued only after an accepted
\* ModifyReplicationGroupShardConfiguration call and, after that call, a wait
\* that observed the group available.
C3_ShardCountBeforeReplicaIncrease ==
  (HasChange(diff, "num_node_groups") /\ diff.rpg[2] > diff.rpg[1]) =>
    \A j \in CallIdx :
      log[j].api = "IncreaseReplicaCount" =>
        \E i, k \in 1..Len(log) :
          /\ i < k /\ k < j
          /\ log[i].ev = "call"
          /\ log[i].api = "ModifyReplicationGroupShardConfiguration"
          /\ log[i].count = diff.nng[2]
          /\ log[i].res = "ok"
          /\ IsAvailableOk(log[k])

C3_Witness ==
  /\ HasChange(diff, "num_node_groups") /\ diff.rpg[2] > diff.rpg[1]
  /\ \E j \in CallIdx : log[j].api = "IncreaseReplicaCount"

\* C4: in an Update pass every remote mutation call comes after a wait that
\* observed the group available, with no other call in between; a wait that
\* reports success has observed its target status; after a failed wait
\* nothing more happens in the pass; and when the update loop is through,
\* the last thing it did was a successful wait for available.
C4_WaitAroundEveryCall ==
  /\ \A j \in CallIdx :
       \E k \in 1..(j - 1) :
         /\ IsAvailableOk(log[k])
         /\ \A m \in (k + 1)..(j - 1) : log[m].ev # "call"
  /\ \A k \in 1..Len(log) :
       log[k].ev = "wait" =>
         /\ log[k].res = "ok" => log[k].status = "available"
         /\ log[k].res # "ok" => (k = Len(log) /\ pc = "done" /\ diags # << >>)
  /\ (pc = "read_find" /\ CallIdx # {}) =>
       (IsAvailableOk(log[Len(log)]) /\ log[Len(log)].at = "upd_postwait")

C4_Witness ==
  /\ Cardinality(CallIdx) >= 2
  /\ \E k \in 1..Len(log) : log[k].ev = "wait" /\ log[k].res # "ok"

\* C5 (as claimed): whatever the operation, a call answered with the "No
\* modifications were requested" fault does not end the pass with an error.
C5_NoModificationsIsSuccess ==
  ~ ( /\ pc = "done"
      /\ diags # << >>
      /\ Len(log) > 0
      /\ log[Len(log)].ev = "call"
      /\ log[Len(log)].res = "nomod" )

\* C6: a remote mutation call answered with a fault other than "No
\* modifications were requested" ends the pass at once with an error: no
\* later call, wait or Read follows it.
C6_FaultAbortsPass ==
  \A j \in CallIdx :
    log[j].res = "fault" => (j = Len(log) /\ pc = "done" /\ diags # << >>)

C6_Witness ==
  /\ Len(log) > 0
  /\ log[Len(log)].ev = "call"
  /\ log[Len(log)].res = "fault"
  /\ idx < Len(updateFuncs)

\* C7: an Update pass issues at most one generic ModifyReplicationGroup call
\* and at most one credential call; the credential call carries the auth
\* token and its update strategy and nothing else, and comes after the
\* generic call.
C7_ModifyBatchedAuthSeparate ==
  /\ Cardinality({j \in CallIdx : IsGenericCall(log[j])}) <= 1
  /\ Cardinality({j \in CallIdx : IsCredentialCall(log[j])}) <= 1
  /\ \A j \in CallIdx :
       IsCredentialCall(log[j]) =>
         /\ log[j].fields = {"AuthToken", "AuthTokenUpdateStrategy"}
         /\ \A i \in CallIdx : IsGenericCall(log[i]) => i < j
  /\ \A j \in CallIdx :
       IsGenericCall(log[j]) => log[j].fields = GenericInput(diff)
  /\ (InRead /\ updateFuncs # << >> /\ HasChanges(diff, AuthAttrs)) =>
       \E j \in CallIdx : IsCredentialCall(log[j])

C7_Witness ==
  /\ HasChange(diff, "auth_token")
  /\ \E i, j \in CallIdx : IsGenericCall(log[i]) /\ IsCredentialCall(log[j])

\* The diff changes auth_token and nothing else.
OnlyAuthToken(d) ==
  /\ d.changed = {"auth_token"}
  /\ ~ HasChanges(d, {"num_node_groups", "replicas_per_node_group", "num_cache_clusters", "engine"})

\* C8: an Update whose diff changes only auth_token issues no call but the
\* credential ModifyReplicationGroup call, and issues it exactly once unless
\* the wait before it fails.
C8_OnlyAuthToken ==
  OnlyAuthToken(diff) =>
    /\ Len(Calls) <= 1
    /\ \A j \in CallIdx : IsCredentialCall(log[j])
    /\ Len(Calls) = 0 =>
         \/ pc \in {"upd_prewait", "auth_call"}
         \/ /\ pc = "done"
            /\ Len(log) = 1
            /\ log[1].ev = "wait" /\ log[1].at = "upd_prewait" /\ log[1].res # "ok"

C8_Witness ==
  /\ OnlyAuthToken(diff)
  /\ UpdateSucceeded
  /\ Len(Calls) = 1

\* The diff of the scenario: 2 node groups with 1 replica each become 3 node
\* groups with 2 replicas each, nothing else changes.
ScenarioC9(d) ==
  /\ d.nng = << 2, 3 >>
  /\ d.rpg = << 1, 2 >>
  /\ d.changed = {}
  /\ ~ HasChanges(d, {"num_cache_clusters", "engine"})

\* C9: the Update from 2 node groups / 1 replica to 3 node groups / 2
\* replicas that succeeds has issued exactly one shard-count call (count 3,
\* no node group removed) and then exactly one IncreaseReplicaCount call
\* (count 2), each followed by a successful wait for available, and its Read
\* has written 3 node groups to the state.
C9_GrowShardsAndReplicas ==
  (ScenarioC9(diff) /\ UpdateSucceeded) =>
    /\ Len(Calls) = 2
    /\ Calls[1] = CallEv("ModifyReplicationGroupShardConfiguration", "shard_nng", 1, 3, << >>, {}, "ok")
    /\ Calls[2] = CallEv("IncreaseReplicaCount", "shard_rpg", 1, 2, << >>, {}, "ok")
    /\ \A j \in CallIdx : j < Len(log) /\ IsAvailableOk(log[j + 1])
    /\ state.num_node_groups = 3
    /\ state.replicas_per_node_group = 2

C9_Witness == ScenarioC9(diff) /\ UpdateSucceeded

\* The diff touches tags / tags_all and nothing else.
OnlyTags(d) ==
  /\ d.changed # {}
  /\ d.changed \subseteq TagAttrs
  /\ ~ HasChanges(d, {"num_node_groups", "replicas_per_node_group", "num_cache_clusters", "engine"})

\* C10: an Update whose diff touches only tags / tags_all plans no operation
\* and goes straight to Read: no remote mutation call and no wait outside Read.
C10_TagsOnlyGoesToRead ==
  (OnlyTags(diff) /\ pc # "idle") =>
    /\ updateFuncs = << >>
    /\ pc \in {"read_find", "read_wait", "read_clusters", "done"}
    /\ \A j \in 1..Len(log) : log[j].ev # "call" /\ log[j].at \in {"read_find", "read_wait"}

C10_Witness ==
  /\ OnlyTags(diff)
  /\ pc = "done"
  /\ Len(log) >= 2

\* C11: an Update pass sees an engine change only as redis to valkey (any
\* other engine change replaces the resource); without an engine_version
\* change in the same diff the pass ends with the validation error before any
\* wait, remote call or read; with one, no validation error is raised and the
\* generic ModifyReplicationGroup call carries Engine and EngineVersion.
C11_EngineChangeForwardWithVersion ==
  (pc # "idle" /\ HasChange(diff, "engine")) =>
    /\ diff.engine = << engineRedis, engineValkey >>
    /\ ~ HasChange(diff, "engine_version") =>
         /\ pc = "done"
         /\ diags = << "must explicitly set engine_version" >>
         /\ log = << >>
    /\ HasChange(diff, "engine_version") =>
         /\ \A k \in 1..Len(diags) : diags[k] # "must explicitly set engine_version"
         /\ \A j \in CallIdx :
              IsGenericCall(log[j]) => {"Engine", "EngineVersion"} \subseteq log[j].fields

C11_Witness ==
  /\ pc = "done"
  /\ diff.engine = << engineRedis, engineValkey >>
  /\ ~ HasChange(diff, "engine_version")
  /\ diags # << >>

\* The identifier of the i-th node group, identifiers counted from 1.
NodeGroupId(i) ==
  << "0001", "0002", "0003", "0004", "0005", "0006", "0007", "0008", "0009" >>[i]

\* C12: a ModifyReplicationGroupShardConfiguration call for a shard-count
\* change old -> new carries the new count; when new < old its removal list
\* is the identifiers of shards old, old-1, ..., new+1, zero padded to four
\* digits, and when new >= old the list is empty.
C12_NodeGroupsToRemove ==
  \A j \in CallIdx :
    log[j].api = "ModifyReplicationGroupShardConfiguration" =>
      LET old == diff.nng[1]
          new == diff.nng[2]
      IN  /\ log[j].count = new
          /\ IF new < old
             THEN /\ Len(log[j].remove) = old - new
                  /\ \A k \in 1..(old - new) :
                       log[j].remove[k] = NodeGroupId(old - k + 1)
             ELSE log[j].remove = << >>

C12_Witness ==
  \E j \in CallIdx :
    /\ log[j].api = "ModifyReplicationGroupShardConfiguration"
    /\ Len(log[j].remove) >= 2

\* The CreateReplicationGroup calls of the pass, in the order issued.
CreateCalls == SelectSeq(log, LAMBDA e : e.ev = "call" /\ e.api = "CreateReplicationGroup")

\* C13: a Create pass issues at most two CreateReplicationGroup calls; a
\* second call is issued exactly when the first carried tags and failed with
\* the unsupported-operation fault, it carries the same payload without the
\* tags, and when it succeeds no creation error is surfaced.
C13_RetryCreateWithoutTags ==
  /\ Len(CreateCalls) <= 2
  /\ Len(CreateCalls) >= 1 =>
       LET first == CreateCalls[1]
           retry == "Tags" \in first.fields /\ first.res = "unsupported"
       IN  /\ retry => (Len(CreateCalls) = 2 \/ pc = "create_retry")
           /\ Len(CreateCalls) = 2 =>
                /\ retry
                /\ CreateCalls[2].fields = first.fields \ {"Tags"}
                /\ CreateCalls[2].res = "ok" =>
                     \A k \in 1..Len(diags) : diags[k] # "creating"

C13_Witness ==
  /\ Len(CreateCalls) = 2
  /\ CreateCalls[2].res = "ok"
  /\ pc = "done"
  /\ diags = << >>

\* The log entry is a remote tagging call made after creation.
IsCreateTags(e) == e.ev = "call" /\ e.api = "createTags"

\* The log entry is a successful wait at position p.
IsWaitOkAt(e, p) == e.ev = "wait" /\ e.at = p /\ e.res = "ok"

\* C14: tagging after creation is attempted only when tags were requested
\* and the group was created by the call without tags, only after the
\* availability waits (of the group and, when configured, of the global
\* group), and never when a create call carrying tags succeeded; when it
\* fails with the unsupported-operation fault the fault is swallowed if no
\* resource tags are configured (default tags only) and surfaced otherwise,
\* and any other fault is surfaced.
C14_TagAfterCreate ==
  \A j \in 1..Len(log) :
    IsCreateTags(log[j]) =>
      /\ getTagsIn(config)
      /\ Len(CreateCalls) = 2
      /\ "Tags" \notin CreateCalls[2].fields /\ CreateCalls[2].res = "ok"
      /\ \A i \in 1..Len(log) :
           (log[i].ev = "call" /\ log[i].api = "CreateReplicationGroup"
              /\ "Tags" \in log[i].fields) => log[i].res # "ok"
      /\ \E i \in 1..(j - 1) : IsWaitOkAt(log[i], "create_wait")
      /\ config.global_replication_group_id # "" =>
           \E i \in 1..(j - 1) : IsWaitOkAt(log[i], "create_global_wait")
      /\ \A i \in 1..Len(log) : IsCreateTags(log[i]) => i = j
      /\ IF log[j].res = "ok" \/ (log[j].res = "unsupported" /\ ~ config.tags)
         THEN \A k \in 1..Len(diags) : diags[k] # "setting tags"
         ELSE pc = "done" /\ diags = << "setting tags" >>

C14_Witness ==
  /\ \E j \in 1..Len(log) : IsCreateTags(log[j]) /\ log[j].res = "unsupported"
  /\ ~ config.tags
  /\ pc = "done"
  /\ diags = << >>

\* C15: a Create pass that returns without a diagnostic has observed the new
\* replication group in status available and, when
\* global_replication_group_id is set, has afterwards observed the global
\* replication group available; the global group is never waited for before
\* the wait for the new group has succeeded.
C15_CreateWaitsForAvailable ==
  /\ (pc = "done" /\ diags = << >> /\ config.isNew) =>
       \E i \in 1..Len(log) :
         /\ IsWaitOkAt(log[i], "create_wait")
         /\ log[i].status = replicationGroupStatusAvailable
         /\ config.global_replication_group_id # "" =>
              \E j \in (i + 1)..Len(log) :
                /\ IsWaitOkAt(log[j], "create_global_wait")
                /\ log[j].status = "available"
  /\ (pc = "create_global_wait" \/ \E j \in 1..Len(log) : log[j].at = "create_global_wait") =>
       \E i \in 1..Len(log) :
         /\ IsWaitOkAt(log[i], "create_wait")
         /\ \A j \in 1..Len(log) : log[j].at = "create_global_wait" => i < j

C15_Witness ==
  /\ pc = "done"
  /\ diags = << >>
  /\ config.isNew
  /\ config.global_replication_group_id # ""
  /\ id = config.replication_group_id

\* The fields of the directly specified group.
DirectFields == {"AutomaticFailoverEnabled", "CacheNodeType", "Engine", "TransitEncryptionEnabled"}

\* C16: every CreateReplicationGroup payload is of one of two kinds: with
\* global_replication_group_id set it carries GlobalReplicationGroupId and
\* none of Engine, CacheNodeType, AutomaticFailoverEnabled and
\* TransitEncryptionEnabled; without it, it carries these four and no
\* GlobalReplicationGroupId; and a configuration with neither
\* global_replication_group_id nor node_type ends Create with the validation
\* error before any remote call.
C16_CreatePayloadBranches ==
  /\ \A j \in 1..Len(CreateCalls) :
       IF config.global_replication_group_id # ""
       THEN /\ "GlobalReplicationGroupId" \in CreateCalls[j].fields
            /\ CreateCalls[j].fields \cap DirectFields = {}
       ELSE /\ "GlobalReplicationGroupId" \notin CreateCalls[j].fields
            /\ DirectFields \subseteq CreateCalls[j].fields
            /\ config.node_type # ""
  /\ (config.isNew /\ NodeTypeMissing(config) /\ pc # "create_start") =>
       /\ pc = "done"
       /\ diags = << "node_type is required" >>
       /\ log = << >>
       /\ ~ remote.exists

C16_Witness ==
  /\ Len(CreateCalls) >= 1
  /\ config.global_replication_group_id # ""
  /\ config.node_type # ""

\* The DeleteReplicationGroup calls of the pass, in the order issued.
DeleteCalls == SelectSeq(log, LAMBDA e : e.ev = "call" /\ e.api = "DeleteReplicationGroup")

\* The DisassociateGlobalReplicationGroup calls of the pass, in the order issued.
DisassociateCalls ==
  SelectSeq(log, LAMBDA e : e.ev = "call" /\ e.api = "DisassociateGlobalReplicationGroup")

\* The last DeleteReplicationGroup call returned the not-found fault.
DeleteNotFound == Len(DeleteCalls) >= 1 /\ DeleteCalls[Len(DeleteCalls)].res = "notfound"

\* C18 as stated: whenever DeleteReplicationGroup has returned the not-found
\* fault, Delete does not wait for deletion and returns no diagnostic.
C18_NotFoundIsSuccess ==
  DeleteNotFound =>
    /\ \A j \in 1..Len(log) : log[j].at # "delete_wait"
    /\ pc # "delete_wait"
    /\ diags = << >>

\* C18, amended: whenever DeleteReplicationGroup has returned the not-found
\* fault, Delete does not wait for deletion and adds no diagnostic for the
\* delete; it returns no diagnostic at all unless the group is linked to a
\* global replication group and has a parameter group whose deletion fails.
C18_NotFoundIsSuccessButParameterGroup ==
  DeleteNotFound =>
    /\ \A j \in 1..Len(log) : log[j].at # "delete_wait"
    /\ pc # "delete_wait"
    /\ \/ diags = << >>
       \/ /\ diags = << "deleting parameter group" >>
          /\ config.global_replication_group_id # ""
          /\ config.parameter_group_name # ""
          /\ log[Len(log)] = CallEv("deleteParameterGroup", "delete_parameter_group",
                                    0, 0, << >>, {}, "fault")

C18_Witness ==
  /\ DeleteNotFound
  /\ pc = "done"
  /\ diags = << >>

\* C19: in a Delete of a group with global_replication_group_id set, no
\* DeleteReplicationGroup call is issued before the last disassociate call
\* has returned success, the global-group-not-found fault or the "not
\* associated" fault; the two faults add no diagnostic; after a successful
\* disassociate call the detach wait runs and succeeds before the delete
\* call; and once disassociation or the detach wait has failed the pass is
\* over without a delete call.  Without global_replication_group_id no
\* disassociate call is made.
C19_DisassociateBeforeDelete ==
  /\ config.global_replication_group_id = "" => Len(DisassociateCalls) = 0
  /\ (config.global_replication_group_id # "" /\ Len(DeleteCalls) >= 1) =>
       \E i \in 1..Len(log) :
         /\ log[i].api = "DisassociateGlobalReplicationGroup"
         /\ log[i].res \in {"ok", "global_notfound", "not_associated"}
         /\ \A j \in 1..Len(log) :
              /\ log[j].api = "DisassociateGlobalReplicationGroup" => j <= i
              /\ log[j].api = "DeleteReplicationGroup" => i < j
         /\ IF log[i].res = "ok"
            THEN /\ IsWaitOkAt(log[i + 1], "detach_wait")
                 /\ log[i + 2].api = "DeleteReplicationGroup"
            ELSE log[i + 1].api = "DeleteReplicationGroup"
  /\ \A i \in 1..Len(log) :
       (log[i].api = "DisassociateGlobalReplicationGroup" /\ log[i].res = "ok") =>
         \/ i = Len(log) /\ pc = "detach_wait"
         \/ i < Len(log) /\ log[i + 1].at = "detach_wait"
  /\ (\E k \in 1..Len(diags) : diags[k] \in {"disassociating", "waiting for detach"}) =>
       /\ pc = "done"
       /\ Len(DeleteCalls) = 0
       /\ Len(diags) = 1

C19_Witness ==
  /\ config.global_replication_group_id # ""
  /\ Len(DeleteCalls) >= 1
  /\ \E i \in 1..Len(log) : IsWaitOkAt(log[i], "detach_wait")

\* C20: DeleteReplicationGroup is re-issued only after it failed with the
\* invalid-replication-group-state fault and at most MaxRetries times (the
\* retry window); after success, the not-found fault or any other fault no
\* further call is made; an invalid-state fault is retried while the window
\* lasts, and when the window is over the pass ends with the error.
C20_DeleteRetriesInvalidState ==
  LET n == Len(DeleteCalls)
  IN  /\ n <= MaxRetries + 1
      /\ \A k \in 1..(n - 1) : DeleteCalls[k].res = "invalid_state"
      /\ n >= 1 =>
           LET last == DeleteCalls[n].res
           IN  /\ last # "invalid_state" => pc # "delete_call"
               /\ last = "fault" => (pc = "done" /\ diags = << "deleting" >>)
               /\ (last = "invalid_state" /\ n <= MaxRetries) =>
                    (pc = "delete_call" /\ diags = << >>)
               /\ (last = "invalid_state" /\ n = MaxRetries + 1) =>
                    (pc = "done" /\ diags = << "deleting" >>)

C20_Witness ==
  /\ Len(DeleteCalls) = MaxRetries + 1
  /\ DeleteCalls[MaxRetries + 1].res = "invalid_state"
  /\ pc = "done"

\* C17 as stated: once assigned, the identifier keeps its value in every
\* step of every Read, Update and Delete pass.
C17_IdentifierNeverChanges == [][id # "" => id' = id]_vars

\* C17, amended: the identifier is assigned once, by the successful
\* CreateReplicationGroup call of Create, and is never given another value;
\* the only other change is a Read that clears it because the group is not
\* found or is in status deleting, which removes the resource from the state.
C17_IdentifierSetOnceOrCleared ==
  [][id' # id =>
       \/ /\ id = ""
          /\ id' = config.replication_group_id
          /\ config.isNew
          /\ pc \in {"create_call", "create_retry"}
          /\ pc' = "create_wait"
       \/ /\ id' = ""
          /\ pc = "read_find"
          /\ pc' = "done"
          /\ ~ remote.exists \/ remote.status = replicationGroupStatusDeleting]_vars

C17_Witness ==
  /\ ~ config.isNew
  /\ id = config.replication_group_id
  /\ pc = "done"
  /\ \E j \in CallIdx : log[j].api \in {"ModifyReplicationGroup", "DeleteReplicationGroup"}

\* C21: a Delete pass calls deleteParameterGroup only when
\* global_replication_group_id and parameter_group_name are both set, and
\* only after the deletion is confirmed: the last DeleteReplicationGroup call
\* returned the not-found fault, or it succeeded and waitReplicationGroupDeleted
\* succeeded after it; once the delete call or the deletion wait has failed
\* the pass is over without a deleteParameterGroup call.
C21_ParameterGroupAfterDeletion ==
  /\ \A j \in 1..Len(log) :
       log[j].api = "deleteParameterGroup" =>
         /\ config.global_replication_group_id # ""
         /\ config.parameter_group_name # ""
         /\ Len(DeleteCalls) >= 1
         /\ \E i \in 1..(j - 1) :
              /\ log[i] = DeleteCalls[Len(DeleteCalls)]
              /\ \/ log[i].res = "notfound" /\ j = i + 1
                 \/ /\ log[i].res = "ok"
                    /\ j = i + 2
                    /\ IsWaitOkAt(log[i + 1], "delete_wait")
  /\ (\E k \in 1..Len(diags) : diags[k] \in {"deleting", "waiting for delete"}) =>
       /\ pc = "done"
       /\ \A j \in 1..Len(log) : log[j].api # "deleteParameterGroup"

C21_Witness ==
  /\ \E j \in 1..Len(log) : log[j].api = "deleteParameterGroup"
  /\ \E i \in 1..Len(log) : IsWaitOkAt(log[i], "delete_wait")

\* The Finder call of Read returned the NotFound error.
ReadFoundNothing ==
  \E j \in 1..Len(log) : log[j].ev = "read" /\ log[j].res = "notfound"

\* C22 as stated: a not-found result of the Finder in Read clears the
\* identifier and adds no diagnostic, whatever invoked Read.
C22_ReadNotFoundRemoves ==
  ReadFoundNothing => (id = "" /\ diags = << >>)

\* C22, amended: a not-found result of the Finder ends Read at once; when
\* the resource is not new (Read on its own or at the end of Update) the
\* identifier is cleared and no diagnostic is added; when it is new (Read at
\* the end of Create) the identifier is kept and the result is returned as
\* the "reading" error.
C22_ReadNotFoundRemovesUnlessNew ==
  ReadFoundNothing =>
    /\ pc = "done"
    /\ IF config.isNew
       THEN id = ReplicationGroupID /\ diags = << "reading" >>
       ELSE id = "" /\ diags = << >>

C22_Witness ==
  /\ ReadFoundNothing
  /\ ~ config.isNew
  /\ id = ""

\* The places <<page, position>> of the listing that hold a group the filter accepts.
MatchingPlaces ==
  {pl \in (1..Len(remote.pages)) \X (1..MaxPageLen) :
     /\ pl[2] <= Len(remote.pages[pl[1]].groups)
     /\ remote.pages[pl[1]].groups[pl[2]] \in remote.filter}

\* No page of the listing is a fault.
NoPageFault == \A k \in 1..Len(remote.pages) : remote.pages[k].err = ""

\* C23: on a listing without a fault findReplicationGroup returns a group
\* exactly when one group over all the pages is accepted by the filter, and
\* it is that group; with none accepted it returns the empty-result error
\* and with two or more the too-many-results error.
C23_FinderSingleResult ==
  (pc \in {"done", "status_done"} /\ NoPageFault) =>
    /\ idx = Len(remote.pages) + 1
    /\ IF Cardinality(MatchingPlaces) = 1
       THEN /\ state.err = ""
            /\ \E pl \in MatchingPlaces : state.result = remote.pages[pl[1]].groups[pl[2]]
       ELSE IF Cardinality(MatchingPlaces) = 0
       THEN state.err = "empty result" /\ state.result = ""
       ELSE state.err = "too many results" /\ state.result = ""

C23_Witness ==
  /\ pc = "done"
  /\ NoPageFault
  /\ Len(remote.pages) = 2
  /\ Cardinality(MatchingPlaces) = 2
  /\ state.err = "too many results"

\* The error of the first page of the listing that is an error, "" if none is.
FirstPageFault ==
  LET faults == {k \in 1..Len(remote.pages) : remote.pages[k].err # ""}
  IN  IF faults = {} THEN ""
      ELSE remote.pages[CHOOSE k \in faults : \A j \in faults : k <= j].err

\* C24: the finder turns the remote not-found fault into the NotFound error
\* and returns any other remote error as it is; the status function reports
\* "no object, no error" for NotFound and hands any other error to the
\* waiter, so it never reports an absent object after another remote error.
C24_NotFoundDistinguished ==
  pc = "status_done" =>
    /\ FirstPageFault = "notfoundfault" =>
         /\ state.err = "notfound"
         /\ state.refresh = [err |-> "", found |-> FALSE, status |-> ""]
    /\ FirstPageFault = "fault" =>
         /\ state.err = "fault"
         /\ state.refresh = [err |-> "fault", found |-> FALSE, status |-> ""]
    /\ (state.refresh.err = "" /\ ~ state.refresh.found) =>
         /\ FirstPageFault # "fault"
         /\ NotFound(state.err)

C24_Witness ==
  /\ pc = "status_done"
  /\ Len(remote.pages) = 2
  /\ remote.pages[1].err = ""
  /\ remote.pages[1].groups # << >>
  /\ remote.pages[2].err = "fault"
  /\ state.refresh.err = "fault"

\* C25: when the finder answers creating, creating, available at successive
\* polls, waitReplicationGroupAvailable returns the object seen in status
\* available, without error, and has polled three times.
C25_CreatingCreatingAvailable ==
  (/\ pc = "done"
   /\ remote.answers[1] = [err |-> "", status |-> replicationGroupStatusCreating]
   /\ remote.answers[2] = [err |-> "", status |-> replicationGroupStatusCreating]
   /\ remote.answers[3] = [err |-> "", status |-> replicationGroupStatusAvailable]) =>
    /\ state.out = "ok"
    /\ state.status = replicationGroupStatusAvailable
    /\ polls = 3
    /\ state.observed = << replicationGroupStatusCreating, replicationGroupStatusCreating,
                           replicationGroupStatusAvailable >>

C25_Witness ==
  /\ pc = "done"
  /\ state.observed = << replicationGroupStatusCreating, replicationGroupStatusCreating,
                         replicationGroupStatusAvailable >>
  /\ state.out = "ok"

\* The log entry is a finished waitReplicationGroupAvailable.
IsAvailableWait(e) == e.ev = "wait" /\ e.api = "waitReplicationGroupAvailable"

\* C26: in a Create pass waitReplicationGroupAvailable reports success only
\* with the group observed in status available; the wait is over by its
\* MaxPolls-th poll, and a wait that ended in the timeout or any other error
\* is the last thing the pass did: the pass is over with the diagnostic of
\* the wait and nothing after the wait has run.
C26_NoSilentWaitSuccess ==
  /\ \A k \in 1..Len(log) :
       IsAvailableWait(log[k]) =>
         /\ log[k].res = "ok" => log[k].status = replicationGroupStatusAvailable
         /\ log[k].res # "ok" =>
              /\ k = Len(log)
              /\ pc = "done"
              /\ diags = << "waiting for create" >>
  /\ pc \in {"create_wait", "read_wait"} => polls < MaxPolls
  /\ pc \in {"create_global_wait", "create_tags"} =>
       \E k \in 1..Len(log) :
         IsWaitOkAt(log[k], "create_wait") /\ log[k].status = replicationGroupStatusAvailable

C26_Witness ==
  /\ pc = "done"
  /\ Len(log) >= 2
  /\ IsAvailableWait(log[Len(log)])
  /\ log[Len(log)].at = "create_wait"
  /\ log[Len(log)].res = "timeout"
  /\ log[Len(log)].status = replicationGroupStatusCreating

\* C27: in a Create pass, once the new group is in status create-failed,
\* which is neither pending nor target, the next poll of the availability
\* wait (the next step that is not one of the control plane) ends the wait
\* and the pass with an error; a wait ended by an
\* unlisted status is the last entry of the log, so no remote call follows.
C27_UnlistedStatusEndsWait ==
  /\ [][(/\ pc = "create_wait"
          /\ remote.status = replicationGroupStatusCreateFailed
          /\ remote' = remote) =>
          /\ pc' = "done"
          /\ diags' = Append(diags, "waiting for create")
          /\ log' = Append(log, log'[Len(log')])
          /\ IsAvailableWait(log'[Len(log')])
          /\ log'[Len(log')].res \in {"unexpected", "error"}]_vars
  /\ [](\A k \in 1..Len(log) :
          (IsAvailableWait(log[k]) /\ log[k].res = "unexpected") =>
            /\ log[k].status \notin AvailablePending \cup AvailableTarget
            /\ k = Len(log)
            /\ pc = "done")

C27_Witness ==
  /\ pc = "done"
  /\ Len(log) >= 2
  /\ IsAvailableWait(log[Len(log)])
  /\ log[Len(log)].at = "create_wait"
  /\ log[Len(log)].res = "unexpected"
  /\ log[Len(log)].status = replicationGroupStatusCreateFailed
  /\ log[Len(log) - 1].api = "CreateReplicationGroup"

\* The statuses the claim takes for pending.
NonAvailableStatuses ==
  {replicationGroupStatusCreating, replicationGroupStatusModifying,
   replicationGroupStatusSnapshotting, replicationGroupStatusDeleting}

\* C28 as stated: the availability waiter never ends with the
\* unexpected-state error on observing creating, modifying, snapshotting or
\* deleting; it keeps polling.
C28_NonAvailableIsPending ==
  \A k \in 1..Len(state.observed) :
    state.observed[k] \in NonAvailableStatuses =>
      \/ k < Len(state.observed)
      \/ pc = "wait_available"
      \/ state.out = "timeout"

\* C28, amended: creating, modifying and snapshotting are pending for the
\* availability waiter, which keeps polling on observing them until the
\* timeout; deleting is not pending: the poll that observes it ends the
\* wait with the unexpected-state error.
C28_PendingWithoutDeleting ==
  \A k \in 1..Len(state.observed) :
    /\ state.observed[k] \in NonAvailableStatuses \ {replicationGroupStatusDeleting} =>
         \/ k < Len(state.observed)
         \/ pc = "wait_available"
         \/ state.out = "timeout"
    /\ state.observed[k] = replicationGroupStatusDeleting =>
         /\ k = Len(state.observed)
         /\ pc = "done"
         /\ state.out = "unexpected"
         /\ state.status = replicationGroupStatusDeleting

C28_Witness ==
  /\ pc = "done"
  /\ state.observed = << replicationGroupStatusModifying, replicationGroupStatusDeleting >>
  /\ state.out = "unexpected"

\* C29: when a CreateReplicationGroup call has succeeded and the wait for
\* the new group (or, after it, for the global replication group) has ended
\* with an error, Create is over with the diagnostic of the wait, the
\* identifier is the id of the created group, and the group exists remotely.
C29_FailedWaitKeepsIdentifier ==
  \A k \in 1..Len(log) :
    (/\ log[k].ev = "wait"
     /\ log[k].at \in {"create_wait", "create_global_wait"}
     /\ log[k].res # "ok") =>
      /\ \E j \in 1..(k - 1) :
           /\ log[j].ev = "call"
           /\ log[j].api = "CreateReplicationGroup"
           /\ log[j].res = "ok"
      /\ pc = "done"
      /\ diags = << IF log[k].at = "create_wait" THEN "waiting for create"
                    ELSE "waiting for global available" >>
      /\ id = config.replication_group_id
      /\ id # ""
      /\ remote.exists

C29_Witness ==
  /\ pc = "done"
  /\ Len(log) >= 2
  /\ log[Len(log)].ev = "wait"
  /\ log[Len(log)].at = "create_wait"
  /\ log[Len(log)].res = "timeout"
  /\ id = config.replication_group_id

\* The calls at i and j of the log are the same call issued twice: the same
\* API for the same planned operation.
IssuedAgain(i, j) ==
  /\ i \in CallIdx /\ j \in CallIdx
  /\ i < j
  /\ log[i].api = log[j].api
  /\ log[i].class = log[j].class

\* The call at i is one of the two calls behind a retry: the delete call
\* that failed with the invalid-state fault or the disassociate call that
\* failed with the invalid-global-state fault.
RetriedByWindow(i) ==
  \/ log[i].api = "DeleteReplicationGroup" /\ log[i].res = "invalid_state"
  \/ log[i].api = "DisassociateGlobalReplicationGroup" /\ log[i].res = "invalid_global_state"

\* The planned mutation calls of an Update pass.
UpdateApis ==
  {"ModifyReplicationGroupShardConfiguration", "IncreaseReplicaCount",
   "DecreaseReplicaCount", "ModifyReplicationGroup"}

\* C30 as stated: in any pass of the resource a remote mutation call is
\* issued again only after it failed with the invalid-state fault (delete)
\* or the invalid-global-state fault (disassociate).
C30_OnlyDeleteAndDisassociateRetried ==
  \A i, j \in 1..Len(log) : IssuedAgain(i, j) => RetriedByWindow(i)

\* C30, amended: no planned mutation call of an Update pass is issued
\* twice, and a failed one is the last call of the pass; a call is issued
\* again only after the delete call failed with the invalid-state fault,
\* the disassociate call failed with the invalid-global-state fault, or the
\* create call carrying tags failed with the unsupported-operation fault,
\* which is re-issued once without the tags.
C30_RetriedCalls ==
  /\ \A i, j \in 1..Len(log) :
       IssuedAgain(i, j) =>
         /\ log[i].api \notin UpdateApis
         /\ \/ RetriedByWindow(i)
            \/ /\ log[i].api = "CreateReplicationGroup"
               /\ log[i].res = "unsupported"
               /\ "Tags" \in log[i].fields
               /\ "Tags" \notin log[j].fields
               /\ Len(CreateCalls) = 2
  /\ \A i \in CallIdx :
       (log[i].api \in UpdateApis /\ CallFails(log[i].at, log[i].res)) =>
         /\ \A j \in CallIdx : j <= i
         /\ pc = "done"

C30_Witness ==
  /\ Len(CreateCalls) = 2
  /\ CreateCalls[1].res = "unsupported"
  /\ CreateCalls[2].res = "ok"
  /\ pc = "done"

\* A remote call as the diff implies it.
Planned(at, api, count, remove, fields) ==
  [at |-> at, api |-> api, count |-> count, remove |-> remove, fields |-> fields]

\* The remote mutation calls the diff d implies, in the order of the
\* numbered list of resourceReplicationGroupUpdate.
ExpectedCalls(d) ==
  IF ~ HasChangesExcept(d, TagAttrs) THEN << >>
  ELSE
    (IF HasChanges(d, {"num_node_groups", "replicas_per_node_group"})
     THEN (IF HasChange(d, "num_node_groups")
           THEN << Planned("shard_nng", "ModifyReplicationGroupShardConfiguration", d.nng[2],
                           NodeGroupsToRemove(d.nng[1], d.nng[2]), {}) >>
           ELSE << >>)
          \o (IF d.rpg[2] > d.rpg[1]
              THEN << Planned("shard_rpg", "IncreaseReplicaCount", d.rpg[2], << >>, {}) >>
              ELSE IF d.rpg[2] < d.rpg[1]
              THEN << Planned("shard_rpg", "DecreaseReplicaCount", d.rpg[2], << >>, {}) >>
              ELSE << >>)
     ELSE IF d.ncc[2] > d.ncc[1]
     THEN << Planned("inc_call", "IncreaseReplicaCount", d.ncc[2] - 1, << >>, {}) >>
     ELSE << >>)
    \o (IF GenericInput(d) # {}
        THEN << Planned("modify_call", "ModifyReplicationGroup", 0, << >>, GenericInput(d)) >>
        ELSE << >>)
    \o (IF HasChanges(d, AuthAttrs)
        THEN << Planned("auth_call", "ModifyReplicationGroup", 0, << >>, AuthInput(d)) >>
        ELSE << >>)
    \o (IF d.ncc[2] < d.ncc[1]
        THEN << Planned("dec_call", "DecreaseReplicaCount", d.ncc[2] - 1, << >>, {}) >>
        ELSE << >>)

\* The calls of the log as Planned records.
IssuedCalls ==
  [k \in 1..Len(Calls) |->
     Planned(Calls[k].at, Calls[k].api, Calls[k].count, Calls[k].remove, Calls[k].fields)]

\* C31: once an Update pass has started, neither the diff nor the planned
\* operations change, the position in the plan only moves forward by one,
\* the calls issued so far are, with their payloads, a prefix of the calls
\* the diff implied at the start of the pass, and they are all of them when
\* the update loop has run to its end.
C31_PlanIsFrozen ==
  /\ [][pc # "idle" =>
          /\ diff' = diff
          /\ updateFuncs' = updateFuncs
          /\ idx' \in {idx, idx + 1}]_vars
  /\ [](pc # "idle" =>
          /\ Len(IssuedCalls) <= Len(ExpectedCalls(diff))
          /\ IssuedCalls = SubSeq(ExpectedCalls(diff), 1, Len(IssuedCalls))
          /\ (InRead \/ (pc = "done" /\ diags = << >>)) =>
               IssuedCalls = ExpectedCalls(diff))

C31_Witness ==
  /\ pc = "done"
  /\ diags = << >>
  /\ Len(Calls) = 2
  /\ Calls[1].at = "shard_nng"
  /\ Calls[2].at = "shard_rpg"
  /\ remote.nodeGroups = diff.nng[2]

\* Read has taken the attributes from the object the finder returned.
Flattened ==
  /\ Len(log) >= 1
  /\ log[1].ev = "read"
  /\ log[1].res = "ok"
  /\ log[1].status # replicationGroupStatusDeleting

\* C32: once Read has flattened the group, with a configuration endpoint
\* port and configuration_endpoint_address are those of that endpoint and
\* the primary and reader addresses are untouched; without one and with at
\* least one node group, port and primary_endpoint_address are those of the
\* first node group's primary endpoint if it has one and
\* reader_endpoint_address that of its reader endpoint if it has one; an
\* attribute without its endpoint is left as it was, and no error is added.
C32_FlattenEndpoints ==
  Flattened =>
    /\ \A k \in 1..Len(diags) : diags[k] # "reading"
    /\ IF remote.configurationEndpoint
       THEN /\ state.port = "configuration_port"
            /\ state.configuration_endpoint_address = "configuration_address"
            /\ state.primary_endpoint_address = ""
            /\ state.reader_endpoint_address = ""
       ELSE IF state.rgp.nodeGroups > 0
       THEN /\ state.configuration_endpoint_address = ""
            /\ state.port = IF remote.primaryEndpoint THEN "primary_port" ELSE ""
            /\ state.primary_endpoint_address =
                 IF remote.primaryEndpoint THEN "primary_address" ELSE ""
            /\ state.reader_endpoint_address =
                 IF remote.readerEndpoint THEN "reader_address" ELSE ""
       ELSE /\ state.port = ""
            /\ state.configuration_endpoint_address = ""
            /\ state.primary_endpoint_address = ""
            /\ state.reader_endpoint_address = ""

C32_Witness ==
  /\ Flattened
  /\ pc = "done"
  /\ diags = << >>
  /\ ~ remote.configurationEndpoint
  /\ ~ remote.primaryEndpoint
  /\ state.port = ""
  /\ state.reader_endpoint_address = "reader_address"

\* C33 (as claimed): Read never indexes an empty list of node groups,
\* whatever object the finder returned.
C33_ReadNeverOutOfRange == pc # "panic"

\* C34: when the shard-configuration operation is planned, no
\* replica-count operation driven by num_cache_clusters is planned with it,
\* and a pass that has issued a call of the shard-configuration operation
\* issues no call of the increase or the decrease operation.
C34_OneReplicaMechanism ==
  /\ (\E i \in 1..Len(updateFuncs) : updateFuncs[i].kind = "shard") =>
       /\ \A j \in 1..Len(updateFuncs) : updateFuncs[j].kind \notin {"increase", "decrease"}
       /\ ~ HasChange(diff, "num_cache_clusters")
  /\ (\E i \in CallIdx : log[i].at \in {"shard_nng", "shard_rpg"}) =>
       \A j \in CallIdx : log[j].at \notin {"inc_call", "dec_call"}

C34_Witness ==
  /\ pc = "done"
  /\ diags = << >>
  /\ \E i \in CallIdx :
       /\ log[i].at = "shard_rpg"
       /\ log[i].api = "DecreaseReplicaCount"
       /\ log[i].res = "ok"

\* C35 (as claimed): every call of the increase or decrease operation sends
\* the new num_cache_clusters less one, an increase only for a larger and a
\* decrease only for a smaller num_cache_clusters, and never a negative
\* count.
C35_ReplicaCountSent ==
  \A j \in CallIdx :
    /\ log[j].at = "inc_call" =>
         /\ log[j].count = diff.ncc[2] - 1
         /\ diff.ncc[2] > diff.ncc[1]
         /\ log[j].count >= 0
    /\ log[j].at = "dec_call" =>
         /\ log[j].count = diff.ncc[2] - 1
         /\ diff.ncc[2] < diff.ncc[1]
         /\ log[j].count >= 0

\* The wait of Delete for the deletion ended with result res on status st.
DeletedWaitEnded(res, st) ==
  /\ Len(log) >= 1
  /\ log[Len(log)].api = "waitReplicationGroupDeleted"
  /\ log[Len(log)].res = res
  /\ log[Len(log)].status = st

\* C36: waitReplicationGroupDeleted succeeds only when the Finder reports
\* the group as not found; a poll that observes creating, available or
\* deleting does not end the wait with success or with an unexpected
\* state; an observed status outside that set ends the wait with an error
\* and Delete fails: it stops with the wait's diagnostic and calls nothing
\* more.
C36_DeletedWait ==
  /\ [][(pc = "delete_wait" /\ remote' = remote /\ log' # log) =>
          /\ log' = Append(log, log'[Len(log')])
          /\ log'[Len(log')].api = "waitReplicationGroupDeleted"
          /\ log'[Len(log')].res = "ok" => ~ remote.exists
          /\ (remote.exists /\ remote.status \in
                 {replicationGroupStatusCreating, replicationGroupStatusAvailable,
                  replicationGroupStatusDeleting}) =>
               log'[Len(log')].res \in {"error", "timeout"}
          /\ (remote.exists /\ remote.status \in
                 {replicationGroupStatusModifying, replicationGroupStatusSnapshotting}) =>
               log'[Len(log')].res \in {"error", "unexpected"}
          /\ log'[Len(log')].res # "ok" =>
               /\ pc' = "done"
               /\ diags' = Append(diags, "waiting for delete")]_vars
  /\ [](\A j \in 1..Len(log) :
          (log[j].api = "waitReplicationGroupDeleted" /\ log[j].res # "ok") =>
            /\ j = Len(log)
            /\ pc = "done"
            /\ Len(diags) >= 1
            /\ diags[Len(diags)] = "waiting for delete")

\* Delete failed on a group still snapshotting after the accepted call.
C36_Witness ==
  /\ pc = "done"
  /\ DeletedWaitEnded("unexpected", replicationGroupStatusSnapshotting)
  /\ diags = << "waiting for delete" >>

\* The k-th event is a CreateReplicationGroup call that failed and is not
\* followed by the call without tags.
CreateCallFailed(k) ==
  /\ log[k].ev = "call"
  /\ log[k].api = "CreateReplicationGroup"
  /\ log[k].res # "ok"
  /\ ~ (/\ log[k].at = "create_call"
        /\ "Tags" \in log[k].fields
        /\ log[k].res = "unsupported")

\* C37: when the create call fails, the call without tags included, Create
\* is over with the error of the creation, the identifier is unset, and
\* nothing follows the failed call: no wait, no tagging call, no Read.
C37_FailedCreateStops ==
  /\ \A k \in 1..Len(log) :
       CreateCallFailed(k) =>
         /\ k = Len(log)
         /\ pc = "done"
         /\ diags = << "creating" >>
         /\ id = ""
         /\ \A j \in 1..(k - 1) :
              /\ log[j].api = "CreateReplicationGroup"
              /\ log[j].at = "create_call"
              /\ log[j].res = "unsupported"
  /\ \A k \in 1..Len(log) :
       (log[k].api = "CreateReplicationGroup" /\ log[k].at = "create_call"
        /\ log[k].res = "unsupported" /\ "Tags" \in log[k].fields) =>
         (pc = "create_retry" \/ (k < Len(log) /\ log[k + 1].at = "create_retry"))

\* The call without tags has failed after the unsupported first call.
C37_Witness ==
  /\ pc = "done"
  /\ Len(log) = 2
  /\ log[1].res = "unsupported"
  /\ log[2].at = "create_retry"
  /\ log[2].res = "fault"
  /\ id = ""

\* C38: when Read finds the group in status deleting, the identifier is
\* cleared, no diagnostic is added, nothing is written to the state, and
\* Read is over: no wait for availability and no cache cluster lookup
\* follow.
C38_ReadDeletingRemoves ==
  \A k \in 1..Len(log) :
    (/\ log[k].ev = "read"
     /\ log[k].res = "ok"
     /\ log[k].status = replicationGroupStatusDeleting) =>
      /\ k = Len(log)
      /\ pc = "done"
      /\ id = ""
      /\ diags = << >>
      /\ state = NoState

C38_Witness ==
  /\ pc = "done"
  /\ Len(log) = 1
  /\ log[1].ev = "read"
  /\ log[1].status = replicationGroupStatusDeleting
  /\ id = ""
  /\ remote.exists

\* The names of the remote mutation calls issued so far, in order.
VaultCallNames == [k \in 1..Len(Calls) |-> Calls[k].api]

\* The number of calls of api issued so far.
VaultCallCount(api) == Cardinality({k \in 1..Len(Calls) : Calls[k].api = api})

\* The Update of the vault is over and none of its remote calls failed.
VaultUpdateOverNoCallFailed ==
  /\ pc = "done"
  /\ \A k \in 1..Len(Calls) : Calls[k].res = "ok"

\* The calls the statement gives attribute a: none when unchanged, one Set
\* when changed to a non-empty value, one Delete when changed to empty.
VaultStatedCalls(a, set, delete) ==
  /\ diff[a][1] = diff[a][2] => VaultCallCount(set) = 0 /\ VaultCallCount(delete) = 0
  /\ (diff[a][1] # diff[a][2] /\ diff[a][2] # "") =>
       VaultCallCount(set) = 1 /\ VaultCallCount(delete) = 0
  /\ (diff[a][1] # diff[a][2] /\ diff[a][2] = "") =>
       VaultCallCount(set) = 0 /\ VaultCallCount(delete) = 1

\* access_policy comes before notification, and after a failed call
\* nothing follows: no notification call and no Read.
VaultOrderAndStop ==
  /\ \A j, k \in 1..Len(log) :
       (/\ log[j].api \in {"SetVaultNotifications", "DeleteVaultNotifications"}
        /\ log[k].api \in {"SetVaultAccessPolicy", "DeleteVaultAccessPolicy"}) => k < j
  /\ \A k \in 1..Len(log) :
       (log[k].ev = "call" /\ log[k].res # "ok") =>
         /\ k = Len(log)
         /\ pc = "done"
         /\ Len(diags) = 1
  /\ \A k \in 1..Len(log) :
       log[k].ev = "read" => k = Len(log) /\ \A j \in 1..(k - 1) : log[j].res = "ok"

VaultPolicyInvalid ==
  /\ diff.access_policy[1] # diff.access_policy[2]
  /\ diff.access_policy[2] = "{"

====
